---------------------------- MODULE Spec2Model ----------------------------
(***************************************************************************)
(* State-machine model of the semantic analyzer (SemanticAnalyzer) of a    *)
(* small imperative language.  The analyzer is a recursive tree walk over  *)
(* an AST; the model keeps the walker's member fields as variables and     *)
(* its C++ call stack as an explicit stack of activation records.  Each    *)
(* action is the code of one handler between two calls into sub-handlers.  *)
(***************************************************************************)
EXTENDS Integers, Sequences, FiniteSets, TLC

VARIABLES
    root,                       \* the AST handed to the constructor (ProgramNode::declarations)
    currentScope,               \* scope chain, global scope first, current scope last; <<>> is nullptr
    currentFunction,            \* name of the enclosing function, "" when empty
    currentFunctionReturnType,  \* DataType
    hasReturn,
    isUnreachable,
    stack,                      \* activation records of the walk, innermost last
    result,                     \* how analyze() stands: idle, running, accepted or a diagnostic
    lastCheck,                  \* the last isAssignmentCompatible call: target, source, answer
    firstOutcome                \* how the first analyze() call on this analyzer ended, once
                                \* a second call has been made

vars == <<root, currentScope, currentFunction, currentFunctionReturnType,
          hasReturn, isUnreachable, stack, result, lastCheck, firstOutcome>>

-----------------------------------------------------------------------------
(* DataType and the type predicates                                        *)

DataTypes == {"INT", "FLOAT", "BOOL", "IOTA"}

stringToDataType(typeStr) ==
    IF typeStr = "int" THEN "INT"
    ELSE IF typeStr = "float" THEN "FLOAT"
    ELSE IF typeStr = "bool" THEN "BOOL"
    ELSE "IOTA"

isNumericType(type) == type = "INT" \/ type = "FLOAT"

isAssignmentCompatible_NoNarrowingGuard(target, source) ==
    \/ target = source
    \/ (target = "BOOL" /\ source = "INT")
    \/ (isNumericType(target) /\ isNumericType(source))
    \/ (target = "INT" /\ source = "BOOL")

isAssignmentCompatible(target, source) ==
    IF target = source THEN TRUE
    ELSE IF target = "BOOL" /\ source = "INT" THEN TRUE
    ELSE IF target = "FLOAT" /\ source = "INT" THEN TRUE
    ELSE IF target = "INT" /\ source = "BOOL" THEN TRUE
    ELSE FALSE

-----------------------------------------------------------------------------
(* SymbolInfo and Scope.  A scope's table is a function from the names it  *)
(* binds to their SymbolInfo; the parent pointer is the position in the    *)
(* chain.                                                                  *)

VariableSymbol(name, type, isConstant) ==
    [name |-> name, type |-> type, kind |-> "VARIABLE", isConstant |-> isConstant,
     paramTypes |-> <<>>, returnType |-> "IOTA"]

FunctionSymbol(name, paramTypes, returnType) ==
    [name |-> name, type |-> "IOTA", kind |-> "FUNCTION", isConstant |-> FALSE,
     paramTypes |-> paramTypes, returnType |-> returnType]

EmptyScope == [n \in {} |-> FunctionSymbol("", <<>>, "IOTA")]

existsLocal_Never(table, name) == FALSE

existsLocal(table, name) == name \in DOMAIN table

addSymbol(table, name, info) ==
    IF name \in DOMAIN table THEN table
    ELSE [n \in (DOMAIN table) \cup {name} |-> IF n = name THEN info ELSE table[n]]

NoSymbol == [name |-> "", type |-> "IOTA", kind |-> "NONE", isConstant |-> FALSE,
             paramTypes |-> <<>>, returnType |-> "IOTA"]

lookupLocal(table, name) == IF name \in DOMAIN table THEN table[name] ELSE NoSymbol

RECURSIVE lookupFrom(_, _, _)
lookupFrom(chain, depth, name) ==
    IF depth = 0 THEN NoSymbol
    ELSE IF name \in DOMAIN chain[depth] THEN chain[depth][name]
    ELSE lookupFrom(chain, depth - 1, name)

lookup_CurrentAndGlobal(chain, name) ==
    IF name \in DOMAIN chain[Len(chain)] THEN chain[Len(chain)][name]
    ELSE lookupLocal(chain[1], name)

lookup(chain, name) == lookupFrom(chain, Len(chain), name)

-----------------------------------------------------------------------------
(* Diagnostics: SemanticException(type, context)                           *)

NoContext == [kind |-> "Empty"]
FunctionContext(name) == [kind |-> "Function", name |-> name]
IdentifierContext(name) == [kind |-> "Identifier", name |-> name]
IdentifierTypeMismatch(name, declared, actual) ==
    [kind |-> "IdentifierTypeMismatch", name |-> name, declared |-> declared, actual |-> actual]
ActualType(type) == [kind |-> "ActualType", actual |-> type]
ArgCount(name, expected, actual) ==
    [kind |-> "ArgCount", name |-> name, expected |-> expected, actual |-> actual]
Signature(name, expected, actual) ==
    [kind |-> "Signature", name |-> name, expected |-> expected, actual |-> actual]
InvalidOperationBetweenTypes(op, left, right) ==
    [kind |-> "InvalidOperationBetweenTypes", op |-> op, left |-> left, right |-> right]
ReturnTypeMismatch(function, expected, actual) ==
    [kind |-> "ReturnTypeMismatch", name |-> function, expected |-> expected, actual |-> actual]

SemanticException(type, context) == [type |-> type, context |-> context]

Idle == [type |-> "IDLE", context |-> NoContext]
Running == [type |-> "RUNNING", context |-> NoContext]
Accepted == [type |-> "ACCEPTED", context |-> NoContext]

NoThrow == [type |-> "NONE", context |-> NoContext]

-----------------------------------------------------------------------------
(* Expression typing.  analyzeExpr yields the type and the exception, if   *)
(* any, and the isAssignmentCompatible calls it made are not recorded.     *)

Typed(t) == [type |-> t, thrown |-> NoThrow]
Throws(type, context) == [type |-> "IOTA", thrown |-> SemanticException(type, context)]
Threw(typed) == typed.thrown.type # "NONE"

ArithmeticOps == {"+", "-", "*", "/"}
ComparisonOps == {"<", ">", "<=", ">="}
EqualityOps == {"==", "!="}

analyzeBinaryOp_Tolerant(op, leftType, rightType) ==
    IF op \in ArithmeticOps THEN
        IF ~isNumericType(leftType) \/ ~isNumericType(rightType)
        THEN Throws("INVALID_BINARY_OPERATION",
                    InvalidOperationBetweenTypes(op, leftType, rightType))
        ELSE IF leftType = "FLOAT" \/ rightType = "FLOAT" THEN Typed("FLOAT")
        ELSE Typed("INT")
    ELSE IF op \in ComparisonOps THEN
        IF ~isNumericType(leftType) \/ ~isNumericType(rightType)
        THEN Throws("INVALID_BINARY_OPERATION",
                    InvalidOperationBetweenTypes(op, leftType, rightType))
        ELSE Typed("BOOL")
    ELSE IF ~isAssignmentCompatible(leftType, rightType)
        THEN Throws("INVALID_BINARY_OPERATION",
                    InvalidOperationBetweenTypes(op, leftType, rightType))
        ELSE Typed("BOOL")

analyzeBinaryOp(op, leftType, rightType) ==
    IF op \in ArithmeticOps THEN
        IF ~isNumericType(leftType) \/ ~isNumericType(rightType)
        THEN Throws("INVALID_BINARY_OPERATION",
                    InvalidOperationBetweenTypes(op, leftType, rightType))
        ELSE IF leftType = "FLOAT" \/ rightType = "FLOAT" THEN Typed("FLOAT")
        ELSE Typed("INT")
    ELSE IF op \in ComparisonOps THEN
        IF ~isNumericType(leftType) \/ ~isNumericType(rightType)
        THEN Throws("INVALID_BINARY_OPERATION",
                    InvalidOperationBetweenTypes(op, leftType, rightType))
        ELSE Typed("BOOL")
    ELSE IF op \in EqualityOps THEN
        IF leftType # rightType
        THEN Throws("INVALID_BINARY_OPERATION",
                    InvalidOperationBetweenTypes(op, leftType, rightType))
        ELSE Typed("BOOL")
    ELSE Typed("IOTA")

RECURSIVE analyzeExpr(_, _)
RECURSIVE analyzeArguments(_, _, _, _, _)

\* The argument loop of a call: i is the next argument, actualTypes the types
\* pushed so far.
analyzeArguments(chain, callNode, symbol, i, actualTypes) ==
    IF i > Len(callNode.arguments) THEN Typed(symbol.returnType)
    ELSE LET arg == analyzeExpr(chain, callNode.arguments[i])
             pushed == Append(actualTypes, arg.type)
         IN  IF Threw(arg) THEN arg
             ELSE IF ~isAssignmentCompatible(symbol.paramTypes[i], arg.type)
             THEN Throws("INVALID_SIGNATURE",
                         Signature(callNode.functionName, symbol.paramTypes, pushed))
             ELSE analyzeArguments(chain, callNode, symbol, i + 1, pushed)

analyzeFunctionCall_ArgumentsFirst(chain, callNode) ==
    LET symbol == lookup(chain, callNode.functionName)
        failing == {i \in 1..Len(callNode.arguments) :
                       Threw(analyzeExpr(chain, callNode.arguments[i]))}
    IN  IF symbol.kind = "NONE"
        THEN Throws("UNDECLARED_FUNCTION", FunctionContext(callNode.functionName))
        ELSE IF symbol.kind # "FUNCTION"
        THEN Throws("NOT_A_FUNCTION", IdentifierContext(callNode.functionName))
        ELSE IF failing # {}
        THEN analyzeExpr(chain, callNode.arguments[CHOOSE i \in failing :
                                                      \A j \in failing : i <= j])
        ELSE IF Len(callNode.arguments) # Len(symbol.paramTypes)
        THEN Throws("WRONG_NUMBER_OF_ARGUMENTS",
                    ArgCount(callNode.functionName, Len(symbol.paramTypes),
                             Len(callNode.arguments)))
        ELSE analyzeArguments(chain, callNode, symbol, 1, <<>>)

analyzeFunctionCall(chain, callNode) ==
    LET symbol == lookup(chain, callNode.functionName)
    IN  IF symbol.kind = "NONE"
        THEN Throws("UNDECLARED_FUNCTION", FunctionContext(callNode.functionName))
        ELSE IF symbol.kind # "FUNCTION"
        THEN Throws("NOT_A_FUNCTION", IdentifierContext(callNode.functionName))
        ELSE IF Len(callNode.arguments) # Len(symbol.paramTypes)
        THEN Throws("WRONG_NUMBER_OF_ARGUMENTS",
                    ArgCount(callNode.functionName, Len(symbol.paramTypes),
                             Len(callNode.arguments)))
        ELSE analyzeArguments(chain, callNode, symbol, 1, <<>>)

analyzeIdentifier(chain, idNode) ==
    LET symbol == lookup(chain, idNode.name)
    IN  IF symbol.kind = "NONE"
        THEN Throws("UNDECLARED_IDENTIFIER", IdentifierContext(idNode.name))
        ELSE IF symbol.kind = "FUNCTION"
        THEN Throws("FUNCTION_USED_AS_VARIABLE", FunctionContext(idNode.name))
        ELSE Typed(symbol.type)

analyzeExpr(chain, expr) ==
    IF expr.kind = "Integer" THEN Typed("INT")
    ELSE IF expr.kind = "Float" THEN Typed("FLOAT")
    ELSE IF expr.kind = "Bool" THEN Typed("BOOL")
    ELSE IF expr.kind = "Identifier" THEN analyzeIdentifier(chain, expr)
    ELSE IF expr.kind = "BinaryOp" THEN
        LET left == analyzeExpr(chain, expr.left)
        IN  IF Threw(left) THEN left
            ELSE LET right == analyzeExpr(chain, expr.right)
                 IN  IF Threw(right) THEN right
                     ELSE analyzeBinaryOp(expr.op, left.type, right.type)
    ELSE IF expr.kind = "UnaryOp" THEN
        LET operand == analyzeExpr(chain, expr.operand)
        IN  IF Threw(operand) THEN operand
            ELSE IF expr.op = "-" THEN
                IF ~isNumericType(operand.type)
                THEN Throws("INVALID_UNARY_OPERATION", ActualType(operand.type))
                ELSE Typed(operand.type)
            ELSE Typed("IOTA")
    ELSE IF expr.kind = "FunctionCall" THEN analyzeFunctionCall(chain, expr)
    ELSE Typed("IOTA")

-----------------------------------------------------------------------------
(* AST nodes.  A node is a record tagged with the name of its class; a     *)
(* vector of children is a sequence; a null ExprNode* is NullExpr.         *)

NullExpr == [kind |-> "Null"]
IntegerNode == [kind |-> "Integer"]
FloatNode == [kind |-> "Float"]
BoolNode == [kind |-> "Bool"]
IdentifierNode(name) == [kind |-> "Identifier", name |-> name]
BinaryOpNode(left, op, right) == [kind |-> "BinaryOp", left |-> left, op |-> op, right |-> right]
UnaryOpNode(op, operand) == [kind |-> "UnaryOp", op |-> op, operand |-> operand]
FunctionCallNode(name, arguments) ==
    [kind |-> "FunctionCall", functionName |-> name, arguments |-> arguments]

Parameter(name, type) == [name |-> name, type |-> type]

VarDeclNode(isConstant, name, typeName, initializer) ==
    [kind |-> "VarDecl", isConstant |-> isConstant, name |-> name,
     typeName |-> typeName, initializer |-> initializer]
FunctionDeclNode(name, parameters, returnType, bodyItems) ==
    [kind |-> "FunctionDecl", name |-> name, parameters |-> parameters,
     returnType |-> returnType, bodyItems |-> bodyItems]
AssignmentStmtNode(name, value) ==
    [kind |-> "AssignmentStmt", variableName |-> name, value |-> value]
ReturnStmtNode(value) == [kind |-> "ReturnStmt", value |-> value]
PrintStmtNode(expression) == [kind |-> "PrintStmt", expression |-> expression]
IfStmtNode(condition, thenItems, elseItems) ==
    [kind |-> "IfStmt", condition |-> condition, thenItems |-> thenItems,
     elseItems |-> elseItems]
WhileStmtNode(condition, bodyItems) ==
    [kind |-> "WhileStmt", condition |-> condition, bodyItems |-> bodyItems]
\* A StmtNode subclass analyzeStmt has no branch for (ExprStmtNode, BlockNode
\* and the IfNode/WhileNode/ReturnNode/PrintNode/AssignmentNode family).
ExprStmtNode(expression) == [kind |-> "ExprStmt", expression |-> expression]
\* the alternate statement classes; a null StmtNode* is NullStmt
NullStmt == [kind |-> "Null"]
AssignmentNode(name, value) ==
    [kind |-> "AssignmentNode", variableName |-> name, value |-> value]
IfNode(condition, thenBranch, elseBranch) ==
    [kind |-> "IfNode", condition |-> condition, thenBranch |-> thenBranch,
     elseBranch |-> elseBranch]
WhileNode(condition, body) == [kind |-> "WhileNode", condition |-> condition, body |-> body]
ReturnNode(value) == [kind |-> "ReturnNode", value |-> value]
PrintNode(expression) == [kind |-> "PrintNode", expression |-> expression]

\* VarDeclNode::getDataType, through TypeNode::toDataType
getDataType(node) == stringToDataType(node.typeName)

HandledStmtKinds == {"AssignmentStmt", "ReturnStmt", "PrintStmt", "IfStmt", "WhileStmt"}
UnhandledStmtKinds ==
    {"ExprStmt", "AssignmentNode", "IfNode", "WhileNode", "ReturnNode", "PrintNode"}

isTerminator_Never(node) == FALSE

isTerminator(node) == node.kind = "ReturnStmt"

RECURSIVE checkPathsReturnFrom_EitherBranch(_, _)
checkPathsReturnFrom_EitherBranch(block, i) ==
    IF i > Len(block) THEN FALSE
    ELSE IF block[i].kind = "ReturnStmt" THEN TRUE
    ELSE IF /\ block[i].kind = "IfStmt"
            /\ block[i].elseItems # <<>>
            /\ \/ checkPathsReturnFrom_EitherBranch(block[i].thenItems, 1)
               \/ checkPathsReturnFrom_EitherBranch(block[i].elseItems, 1)
         THEN TRUE
    ELSE checkPathsReturnFrom_EitherBranch(block, i + 1)

RECURSIVE checkPathsReturnFrom_LoopReturns(_, _)
checkPathsReturnFrom_LoopReturns(block, i) ==
    IF i > Len(block) THEN FALSE
    ELSE IF block[i].kind = "ReturnStmt" THEN TRUE
    ELSE IF /\ block[i].kind = "IfStmt"
            /\ block[i].elseItems # <<>>
            /\ checkPathsReturnFrom_LoopReturns(block[i].thenItems, 1)
            /\ checkPathsReturnFrom_LoopReturns(block[i].elseItems, 1)
         THEN TRUE
    ELSE IF /\ block[i].kind = "WhileStmt"
            /\ checkPathsReturnFrom_LoopReturns(block[i].bodyItems, 1)
         THEN TRUE
    ELSE checkPathsReturnFrom_LoopReturns(block, i + 1)

RECURSIVE checkPathsReturnFrom(_, _)
\* the loop of checkPathsReturn from item i on
checkPathsReturnFrom(block, i) ==
    IF i > Len(block) THEN FALSE
    ELSE IF block[i].kind = "ReturnStmt" THEN TRUE
    ELSE IF /\ block[i].kind = "IfStmt"
            /\ block[i].elseItems # <<>>
            /\ checkPathsReturnFrom(block[i].thenItems, 1)
            /\ checkPathsReturnFrom(block[i].elseItems, 1)
         THEN TRUE
    ELSE checkPathsReturnFrom(block, i + 1)

checkPathsReturn_LastItem(block) ==
    block # <<>> /\ block[Len(block)].kind = "ReturnStmt"

checkPathsReturn(block) == checkPathsReturnFrom(block, 1)

-----------------------------------------------------------------------------
(* Activation records                                                      *)

ProgramFrame(i) == [kind |-> "Program", i |-> i]
BlockFrame(block, createNewScope, parentScope) ==
    [kind |-> "Block", block |-> block, i |-> 1, createNewScope |-> createNewScope,
     parentScope |-> parentScope, blockUnreachable |-> FALSE]
FunctionFrame_InnerKept(node, parentScope) ==
    [kind |-> "Function", node |-> node, parentScope |-> parentScope,
     previousFunction |-> node.name,
     previousReturnType |-> node.returnType,
     previousHasReturn |-> hasReturn,
     previousUnreachable |-> isUnreachable]

FunctionFrame(node, parentScope) ==
    [kind |-> "Function", node |-> node, parentScope |-> parentScope,
     previousFunction |-> currentFunction,
     previousReturnType |-> currentFunctionReturnType,
     previousHasReturn |-> hasReturn,
     previousUnreachable |-> isUnreachable]
IfFrame(node, prevUnreachable, thenUnreachable, branch) ==
    [kind |-> "If", node |-> node, prevUnreachable |-> prevUnreachable,
     thenUnreachable |-> thenUnreachable, branch |-> branch]
WhileFrame(node, prevUnreachable) ==
    [kind |-> "While", node |-> node, prevUnreachable |-> prevUnreachable]

Top == stack[Len(stack)]
Popped == SubSeq(stack, 1, Len(stack) - 1)
Current == currentScope[Len(currentScope)]

\* the walk stands before an item of the program or of a block
AtDeclaration ==
    /\ result.type = "RUNNING" /\ stack # <<>>
    /\ Top.kind = "Program" /\ Top.i <= Len(root)
AtBlockItem ==
    /\ result.type = "RUNNING" /\ stack # <<>>
    /\ Top.kind = "Block" /\ Top.i <= Len(Top.block)
AtItem == AtDeclaration \/ (AtBlockItem /\ ~Top.blockUnreachable)
Item == IF Top.kind = "Program" THEN root[Top.i] ELSE Top.block[Top.i]

\* the caller's loop moves to its next item: stk ends with the caller's record
Advance(stk) == [stk EXCEPT ![Len(stk)].i = @ + 1]

\* the current scope's table with one more symbol
Inserted(chain, name, info) ==
    [chain EXCEPT ![Len(chain)] = addSymbol(@, name, info)]

NoCheck == [made |-> FALSE, target |-> "IOTA", source |-> "IOTA", answer |-> FALSE]
Check(target, source) ==
    [made |-> TRUE, target |-> target, source |-> source,
     answer |-> isAssignmentCompatible(target, source)]

\* an exception leaves every member field as it is and unwinds the C++ stack
Throw(exception) ==
    /\ result' = exception
    /\ stack' = <<>>

-----------------------------------------------------------------------------
(* analyze() and analyzeProgram                                            *)

hoist_Nothing(declarations, i, table) == [table |-> table, thrown |-> NoThrow]

RECURSIVE hoist_LastWins(_, _, _)
hoist_LastWins(declarations, i, table) ==
    IF i > Len(declarations) THEN [table |-> table, thrown |-> NoThrow]
    ELSE IF declarations[i].kind # "FunctionDecl" THEN hoist_LastWins(declarations, i + 1, table)
    ELSE LET funcDecl == declarations[i]
             paramTypes == [k \in 1..Len(funcDecl.parameters) |-> funcDecl.parameters[k].type]
         IN  hoist_LastWins(declarations, i + 1,
                            addSymbol(table, funcDecl.name,
                                      FunctionSymbol(funcDecl.name, paramTypes,
                                                     funcDecl.returnType)))

RECURSIVE hoist_Variables(_, _, _)
hoist_Variables(declarations, i, table) ==
    IF i > Len(declarations) THEN [table |-> table, thrown |-> NoThrow]
    ELSE IF declarations[i].kind \notin {"FunctionDecl", "VarDecl"}
    THEN hoist_Variables(declarations, i + 1, table)
    ELSE LET decl == declarations[i]
         IN  IF existsLocal(table, decl.name)
             THEN IF lookupLocal(table, decl.name).kind = "FUNCTION"
                  THEN [table |-> table,
                        thrown |-> SemanticException("REDECLARED_FUNCTION",
                                                     FunctionContext(decl.name))]
                  ELSE [table |-> table,
                        thrown |-> SemanticException("REDECLARED_IDENTIFIER",
                                                     IdentifierContext(decl.name))]
             ELSE hoist_Variables(declarations, i + 1,
                      addSymbol(table, decl.name,
                                IF decl.kind = "VarDecl"
                                THEN VariableSymbol(decl.name, stringToDataType(decl.typeName),
                                                    decl.isConstant)
                                ELSE FunctionSymbol(decl.name,
                                         [k \in 1..Len(decl.parameters) |->
                                             decl.parameters[k].type],
                                         decl.returnType)))

RECURSIVE hoist(_, _, _)
\* First pass of analyzeProgram from declaration i on: the global table it
\* has built and the exception it ends with, if any.
hoist(declarations, i, table) ==
    IF i > Len(declarations) THEN [table |-> table, thrown |-> NoThrow]
    ELSE IF declarations[i].kind # "FunctionDecl" THEN hoist(declarations, i + 1, table)
    ELSE LET funcDecl == declarations[i]
             paramTypes == [k \in 1..Len(funcDecl.parameters) |-> funcDecl.parameters[k].type]
         IN  IF existsLocal(table, funcDecl.name)
             THEN IF lookupLocal(table, funcDecl.name).kind = "FUNCTION"
                  THEN [table |-> table,
                        thrown |-> SemanticException("REDECLARED_FUNCTION",
                                                     FunctionContext(funcDecl.name))]
                  ELSE [table |-> table,
                        thrown |-> SemanticException("REDECLARED_IDENTIFIER",
                                                     IdentifierContext(funcDecl.name))]
             ELSE hoist(declarations, i + 1,
                        addSymbol(table, funcDecl.name,
                                  FunctionSymbol(funcDecl.name, paramTypes,
                                                 funcDecl.returnType)))

EmptyScope_GlobalKept == IF currentScope = <<>> THEN EmptyScope ELSE currentScope[1]

\* the scope analyzeProgram makes for the global scope
globalScope == EmptyScope

\* analyze() up to the second pass: the global scope and the hoisting pass
AnalyzeProgram ==
    /\ result.type = "IDLE"
    /\ LET hoisted == hoist(root, 1, globalScope)
       IN  /\ currentScope' = <<hoisted.table>>
           /\ IF hoisted.thrown.type # "NONE"
              THEN Throw(hoisted.thrown)
              ELSE /\ result' = Running
                   /\ stack' = <<ProgramFrame(1)>>
    /\ UNCHANGED <<root, firstOutcome, currentFunction, currentFunctionReturnType, hasReturn,
                   isUnreachable, lastCheck>>

\* analyze() called once more on the same analyzer, after the first call has
\* returned or thrown: the member fields are as that call left them
AnalyzeProgramAgain ==
    /\ result.type \notin {"IDLE", "RUNNING"}
    /\ firstOutcome.type = "NONE"
    /\ firstOutcome' = result
    /\ LET hoisted == hoist(root, 1, globalScope)
       IN  /\ currentScope' = <<hoisted.table>>
           /\ IF hoisted.thrown.type # "NONE"
              THEN Throw(hoisted.thrown)
              ELSE /\ result' = Running
                   /\ stack' = <<ProgramFrame(1)>>
    /\ UNCHANGED <<root, currentFunction, currentFunctionReturnType, hasReturn,
                   isUnreachable, lastCheck>>

\* the second pass has run through every declaration: analyze() returns
AnalyzeProgramReturn ==
    /\ result.type = "RUNNING" /\ stack # <<>>
    /\ Top.kind = "Program" /\ Top.i > Len(root)
    /\ result' = Accepted
    /\ stack' = <<>>
    /\ UNCHANGED <<root, firstOutcome, currentScope, currentFunction, currentFunctionReturnType,
                   hasReturn, isUnreachable, lastCheck>>

-----------------------------------------------------------------------------
(* analyzeVarDecl                                                          *)

AnalyzeVarDecl_InsertFirst ==
    /\ AtItem /\ Item.kind = "VarDecl"
    /\ LET node == Item
           declaredType == getDataType(node)
           hasInit == node.initializer.kind # "Null"
           init == IF hasInit
                   THEN analyzeExpr(Inserted(currentScope, node.name,
                                        VariableSymbol(node.name, declaredType,
                                                       node.isConstant)),
                                    node.initializer)
                   ELSE Typed(declaredType)
       IN  IF isUnreachable THEN
               /\ Throw(SemanticException("UNREACHABLE_CODE", NoContext))
               /\ UNCHANGED <<currentScope, lastCheck>>
           ELSE IF existsLocal(Current, node.name) THEN
               /\ IF lookupLocal(Current, node.name).kind = "FUNCTION"
                  THEN Throw(SemanticException("REDECLARED_FUNCTION",
                                               FunctionContext(node.name)))
                  ELSE Throw(SemanticException("REDECLARED_IDENTIFIER",
                                               IdentifierContext(node.name)))
               /\ UNCHANGED <<currentScope, lastCheck>>
           ELSE IF hasInit /\ Threw(init) THEN
               /\ Throw(init.thrown)
               /\ UNCHANGED <<currentScope, lastCheck>>
           ELSE IF hasInit /\ ~isAssignmentCompatible(declaredType, init.type) THEN
               /\ Throw(SemanticException("VAR_DECL_TYPE_MISMATCH",
                        IdentifierTypeMismatch(node.name, declaredType, init.type)))
               /\ lastCheck' = Check(declaredType, init.type)
               /\ UNCHANGED currentScope
           ELSE
               /\ currentScope' = Inserted(currentScope, node.name,
                                    VariableSymbol(node.name, declaredType, node.isConstant))
               /\ lastCheck' = IF hasInit THEN Check(declaredType, init.type) ELSE lastCheck
               /\ stack' = Advance(stack)
               /\ UNCHANGED result
    /\ UNCHANGED <<root, firstOutcome, currentFunction, currentFunctionReturnType, hasReturn,
                   isUnreachable>>

AnalyzeVarDecl ==
    /\ AtItem /\ Item.kind = "VarDecl"
    /\ LET node == Item
           declaredType == getDataType(node)
           hasInit == node.initializer.kind # "Null"
           init == IF hasInit THEN analyzeExpr(currentScope, node.initializer)
                   ELSE Typed(declaredType)
       IN  IF isUnreachable THEN
               /\ Throw(SemanticException("UNREACHABLE_CODE", NoContext))
               /\ UNCHANGED <<currentScope, lastCheck>>
           ELSE IF existsLocal(Current, node.name) THEN
               /\ IF lookupLocal(Current, node.name).kind = "FUNCTION"
                  THEN Throw(SemanticException("REDECLARED_FUNCTION",
                                               FunctionContext(node.name)))
                  ELSE Throw(SemanticException("REDECLARED_IDENTIFIER",
                                               IdentifierContext(node.name)))
               /\ UNCHANGED <<currentScope, lastCheck>>
           ELSE IF hasInit /\ Threw(init) THEN
               /\ Throw(init.thrown)
               /\ UNCHANGED <<currentScope, lastCheck>>
           ELSE IF hasInit /\ ~isAssignmentCompatible(declaredType, init.type) THEN
               /\ Throw(SemanticException("VAR_DECL_TYPE_MISMATCH",
                        IdentifierTypeMismatch(node.name, declaredType, init.type)))
               /\ lastCheck' = Check(declaredType, init.type)
               /\ UNCHANGED currentScope
           ELSE
               /\ currentScope' = Inserted(currentScope, node.name,
                                    VariableSymbol(node.name, declaredType, node.isConstant))
               /\ lastCheck' = IF hasInit THEN Check(declaredType, init.type) ELSE lastCheck
               /\ stack' = Advance(stack)
               /\ UNCHANGED result
    /\ UNCHANGED <<root, firstOutcome, currentFunction, currentFunctionReturnType, hasReturn,
                   isUnreachable>>

-----------------------------------------------------------------------------
(* analyzeFunctionDecl                                                     *)

RECURSIVE addParameters(_, _, _)
\* The parameter loop from parameter i on: the function scope's table and
\* the exception it ends with, if any.
addParameters(parameters, i, table) ==
    IF i > Len(parameters) THEN [table |-> table, thrown |-> NoThrow]
    ELSE IF existsLocal(table, parameters[i].name)
    THEN [table |-> table,
          thrown |-> SemanticException("REDECLARED_IDENTIFIER",
                                       IdentifierContext(parameters[i].name))]
    ELSE addParameters(parameters, i + 1,
                       addSymbol(table, parameters[i].name,
                                 VariableSymbol(parameters[i].name, parameters[i].type,
                                                FALSE)))

AnalyzeFunctionDecl_BodyScope ==
    /\ AtItem /\ Item.kind = "FunctionDecl"
    /\ LET node == Item
           parentScope == Len(currentScope)
           added == addParameters(node.parameters, 1, EmptyScope)
       IN  /\ currentScope' = IF added.thrown.type # "NONE"
                             THEN Append(currentScope, added.table)
                             ELSE currentScope \o <<added.table, EmptyScope>>
           /\ currentFunction' = node.name
           /\ currentFunctionReturnType' = node.returnType
           /\ hasReturn' = FALSE
           /\ isUnreachable' = FALSE
           /\ IF added.thrown.type # "NONE"
              THEN Throw(added.thrown)
              ELSE /\ stack' = stack \o <<FunctionFrame(node, parentScope),
                                          BlockFrame(node.bodyItems, TRUE, parentScope + 1)>>
                   /\ UNCHANGED result
    /\ UNCHANGED <<root, firstOutcome, lastCheck>>

AnalyzeFunctionDecl_NameInserted ==
    /\ AtItem /\ Item.kind = "FunctionDecl"
    /\ LET node == Item
           parentScope == Len(currentScope)
           added == addParameters(node.parameters, 1, EmptyScope)
       IN  /\ currentScope' =
                  IF Top.kind = "Block"
                  THEN Append(Inserted(currentScope, node.name,
                                       FunctionSymbol(node.name, <<>>, node.returnType)),
                              added.table)
                  ELSE Append(currentScope, added.table)
           /\ currentFunction' = node.name
           /\ currentFunctionReturnType' = node.returnType
           /\ hasReturn' = FALSE
           /\ isUnreachable' = FALSE
           /\ IF added.thrown.type # "NONE"
              THEN Throw(added.thrown)
              ELSE /\ stack' = stack \o <<FunctionFrame(node, parentScope),
                                          BlockFrame(node.bodyItems, FALSE, parentScope + 1)>>
                   /\ UNCHANGED result
    /\ UNCHANGED <<root, firstOutcome, lastCheck>>

\* analyzeFunctionDecl up to its call of analyzeBlock(bodyItems, false)
AnalyzeFunctionDecl ==
    /\ AtItem /\ Item.kind = "FunctionDecl"
    /\ LET node == Item
           parentScope == Len(currentScope)
           added == addParameters(node.parameters, 1, EmptyScope)
       IN  /\ currentScope' = Append(currentScope, added.table)
           /\ currentFunction' = node.name
           /\ currentFunctionReturnType' = node.returnType
           /\ hasReturn' = FALSE
           /\ isUnreachable' = FALSE
           /\ IF added.thrown.type # "NONE"
              THEN Throw(added.thrown)
              ELSE /\ stack' = stack \o <<FunctionFrame(node, parentScope),
                                          BlockFrame(node.bodyItems, FALSE, parentScope + 1)>>
                   /\ UNCHANGED result
    /\ UNCHANGED <<root, firstOutcome, lastCheck>>

AnalyzeFunctionDeclReturn_FlagKept ==
    /\ result.type = "RUNNING" /\ stack # <<>>
    /\ Top.kind = "Function"
    /\ LET frame == Top
       IN  IF /\ currentFunctionReturnType # "IOTA"
              /\ ~checkPathsReturn(frame.node.bodyItems)
           THEN /\ Throw(SemanticException("MISSING_RETURN",
                                           FunctionContext(frame.node.name)))
                /\ UNCHANGED <<currentScope, currentFunction, currentFunctionReturnType,
                               hasReturn, isUnreachable>>
           ELSE /\ currentFunction' = frame.previousFunction
                /\ currentFunctionReturnType' = frame.previousReturnType
                /\ hasReturn' = frame.previousHasReturn
                /\ isUnreachable' = isUnreachable
                /\ currentScope' = SubSeq(currentScope, 1, frame.parentScope)
                /\ stack' = Advance(Popped)
                /\ UNCHANGED result
    /\ UNCHANGED <<root, firstOutcome, lastCheck>>

\* analyzeFunctionDecl after analyzeBlock has returned
AnalyzeFunctionDeclReturn ==
    /\ result.type = "RUNNING" /\ stack # <<>>
    /\ Top.kind = "Function"
    /\ LET frame == Top
       IN  IF /\ currentFunctionReturnType # "IOTA"
              /\ ~checkPathsReturn(frame.node.bodyItems)
           THEN /\ Throw(SemanticException("MISSING_RETURN",
                                           FunctionContext(frame.node.name)))
                /\ UNCHANGED <<currentScope, currentFunction, currentFunctionReturnType,
                               hasReturn, isUnreachable>>
           ELSE /\ currentFunction' = frame.previousFunction
                /\ currentFunctionReturnType' = frame.previousReturnType
                /\ hasReturn' = frame.previousHasReturn
                /\ isUnreachable' = frame.previousUnreachable
                /\ currentScope' = SubSeq(currentScope, 1, frame.parentScope)
                /\ stack' = Advance(Popped)
                /\ UNCHANGED result
    /\ UNCHANGED <<root, firstOutcome, lastCheck>>

-----------------------------------------------------------------------------
(* analyzeBlock                                                            *)

\* the loop meets an item after a terminator statement of the same block
AnalyzeBlockUnreachable ==
    /\ AtBlockItem /\ Top.blockUnreachable
    /\ Throw(SemanticException("UNREACHABLE_CODE", NoContext))
    /\ UNCHANGED <<root, firstOutcome, currentScope, currentFunction, currentFunctionReturnType,
                   hasReturn, isUnreachable, lastCheck>>

leaveScope_Stay(chain, createNewScope, parentScope) == chain

\* the end of analyzeBlock: currentScope = parentScope when the block made a scope
leaveScope(chain, createNewScope, parentScope) ==
    IF createNewScope THEN SubSeq(chain, 1, parentScope) ELSE chain

\* the loop is over: the block's scope, if it made one, is left, and the
\* caller goes on
AnalyzeBlockReturn ==
    /\ result.type = "RUNNING" /\ stack # <<>>
    /\ Top.kind = "Block" /\ Top.i > Len(Top.block)
    /\ currentScope' = leaveScope(currentScope, Top.createNewScope, Top.parentScope)
    /\ stack' = Popped
    /\ UNCHANGED <<root, firstOutcome, currentFunction, currentFunctionReturnType, hasReturn,
                   isUnreachable, result, lastCheck>>

\* an item that is neither a FunctionDeclNode, a VarDeclNode nor a StmtNode
\* analyzeStmt has a branch for: nothing is done with it
AnalyzeStmtNoBranch ==
    /\ AtItem /\ Top.kind = "Block" /\ Item.kind \in UnhandledStmtKinds
    /\ stack' = Advance(stack)
    /\ UNCHANGED <<root, firstOutcome, currentScope, currentFunction, currentFunctionReturnType,
                   hasReturn, isUnreachable, result, lastCheck>>

-----------------------------------------------------------------------------
(* analyzeAssignment, analyzeReturn, analyzePrint                          *)

AnalyzeAssignment_ValueFirst ==
    /\ AtItem /\ Top.kind = "Block" /\ Item.kind = "AssignmentStmt"
    /\ LET node == Item
           symbol == lookup(currentScope, node.variableName)
           value == analyzeExpr(currentScope, node.value)
       IN  IF isUnreachable THEN
               /\ Throw(SemanticException("UNREACHABLE_CODE", NoContext))
               /\ UNCHANGED lastCheck
           ELSE IF Threw(value) THEN
               /\ Throw(value.thrown)
               /\ UNCHANGED lastCheck
           ELSE IF symbol.kind = "NONE" THEN
               /\ Throw(SemanticException("UNDECLARED_IDENTIFIER",
                                          IdentifierContext(node.variableName)))
               /\ UNCHANGED lastCheck
           ELSE IF symbol.kind = "FUNCTION" THEN
               /\ Throw(SemanticException("FUNCTION_USED_AS_VARIABLE",
                                          FunctionContext(node.variableName)))
               /\ UNCHANGED lastCheck
           ELSE IF symbol.isConstant THEN
               /\ Throw(SemanticException("VAR_ASSIGN_TO_CONSTANT",
                                          IdentifierContext(node.variableName)))
               /\ UNCHANGED lastCheck
           ELSE IF ~isAssignmentCompatible(symbol.type, value.type) THEN
               /\ Throw(SemanticException("VAR_ASSIGN_TYPE_MISMATCH",
                        IdentifierTypeMismatch(node.variableName, symbol.type, value.type)))
               /\ lastCheck' = Check(symbol.type, value.type)
           ELSE
               /\ lastCheck' = Check(symbol.type, value.type)
               /\ stack' = Advance(stack)
               /\ UNCHANGED result
    /\ UNCHANGED <<root, firstOutcome, currentScope, currentFunction, currentFunctionReturnType,
                   hasReturn, isUnreachable>>

AnalyzeAssignment ==
    /\ AtItem /\ Top.kind = "Block" /\ Item.kind = "AssignmentStmt"
    /\ LET node == Item
           symbol == lookup(currentScope, node.variableName)
           value == analyzeExpr(currentScope, node.value)
       IN  IF isUnreachable THEN
               /\ Throw(SemanticException("UNREACHABLE_CODE", NoContext))
               /\ UNCHANGED lastCheck
           ELSE IF symbol.kind = "NONE" THEN
               /\ Throw(SemanticException("UNDECLARED_IDENTIFIER",
                                          IdentifierContext(node.variableName)))
               /\ UNCHANGED lastCheck
           ELSE IF symbol.kind = "FUNCTION" THEN
               /\ Throw(SemanticException("FUNCTION_USED_AS_VARIABLE",
                                          FunctionContext(node.variableName)))
               /\ UNCHANGED lastCheck
           ELSE IF symbol.isConstant THEN
               /\ Throw(SemanticException("VAR_ASSIGN_TO_CONSTANT",
                                          IdentifierContext(node.variableName)))
               /\ UNCHANGED lastCheck
           ELSE IF Threw(value) THEN
               /\ Throw(value.thrown)
               /\ UNCHANGED lastCheck
           ELSE IF ~isAssignmentCompatible(symbol.type, value.type) THEN
               /\ Throw(SemanticException("VAR_ASSIGN_TYPE_MISMATCH",
                        IdentifierTypeMismatch(node.variableName, symbol.type, value.type)))
               /\ lastCheck' = Check(symbol.type, value.type)
           ELSE
               /\ lastCheck' = Check(symbol.type, value.type)
               /\ stack' = Advance(stack)
               /\ UNCHANGED result
    /\ UNCHANGED <<root, firstOutcome, currentScope, currentFunction, currentFunctionReturnType,
                   hasReturn, isUnreachable>>

\* analyzeReturn, and analyzeBlock's isTerminator branch after it
AnalyzeReturn ==
    /\ AtItem /\ Top.kind = "Block" /\ Item.kind = "ReturnStmt"
    /\ LET node == Item
           hasValue == node.value.kind # "Null"
           value == IF hasValue THEN analyzeExpr(currentScope, node.value)
                    ELSE Typed("IOTA")
           returned == [Advance(stack) EXCEPT ![Len(stack)].blockUnreachable =
                                                  isTerminator(node)]
       IN  IF isUnreachable THEN
               /\ Throw(SemanticException("UNREACHABLE_CODE", NoContext))
               /\ UNCHANGED <<hasReturn, isUnreachable, lastCheck>>
           ELSE IF currentFunction = "" THEN
               /\ Throw(SemanticException("RETURN_OUTSIDE_FUNCTION", NoContext))
               /\ UNCHANGED <<hasReturn, isUnreachable, lastCheck>>
           ELSE IF hasValue /\ Threw(value) THEN
               /\ Throw(value.thrown)
               /\ UNCHANGED <<hasReturn, isUnreachable, lastCheck>>
           ELSE IF hasValue /\ ~isAssignmentCompatible(currentFunctionReturnType, value.type)
           THEN
               /\ Throw(SemanticException("RETURN_TYPE_MISMATCH",
                        ReturnTypeMismatch(currentFunction, currentFunctionReturnType,
                                           value.type)))
               /\ lastCheck' = Check(currentFunctionReturnType, value.type)
               /\ UNCHANGED <<hasReturn, isUnreachable>>
           ELSE IF ~hasValue /\ currentFunctionReturnType # "IOTA" THEN
               /\ Throw(SemanticException("RETURN_TYPE_MISMATCH",
                        ReturnTypeMismatch(currentFunction, currentFunctionReturnType,
                                           "IOTA")))
               /\ UNCHANGED <<hasReturn, isUnreachable, lastCheck>>
           ELSE
               /\ hasReturn' = TRUE
               /\ isUnreachable' = TRUE
               /\ lastCheck' = IF hasValue
                               THEN Check(currentFunctionReturnType, value.type)
                               ELSE lastCheck
               /\ stack' = returned
               /\ UNCHANGED result
    /\ UNCHANGED <<root, firstOutcome, currentScope, currentFunction, currentFunctionReturnType>>

AnalyzePrint ==
    /\ AtItem /\ Top.kind = "Block" /\ Item.kind = "PrintStmt"
    /\ LET node == Item
           expression == analyzeExpr(currentScope, node.expression)
       IN  IF isUnreachable THEN
               Throw(SemanticException("UNREACHABLE_CODE", NoContext))
           ELSE IF Threw(expression) THEN
               Throw(expression.thrown)
           ELSE
               /\ stack' = Advance(stack)
               /\ UNCHANGED result
    /\ UNCHANGED <<root, firstOutcome, currentScope, currentFunction, currentFunctionReturnType,
                   hasReturn, isUnreachable, lastCheck>>

-----------------------------------------------------------------------------
(* analyzeIf                                                               *)

isBoolCondition_Tolerant(condType) == isAssignmentCompatible("BOOL", condType)

\* the test analyzeIf and analyzeWhile make of the condition's type
isBoolCondition(condType) == condType = "BOOL"

\* analyzeIf up to its call of analyzeBlock(thenItems, true), together with
\* that call's scope creation
AnalyzeIf ==
    /\ AtItem /\ Top.kind = "Block" /\ Item.kind = "IfStmt"
    /\ LET node == Item
           cond == analyzeExpr(currentScope, node.condition)
           parentScope == Len(currentScope)
       IN  IF isUnreachable THEN
               /\ Throw(SemanticException("UNREACHABLE_CODE", NoContext))
               /\ UNCHANGED currentScope
           ELSE IF Threw(cond) THEN
               /\ Throw(cond.thrown)
               /\ UNCHANGED currentScope
           ELSE IF ~isBoolCondition(cond.type) THEN
               /\ Throw(SemanticException("CONDITION_NOT_BOOL", ActualType(cond.type)))
               /\ UNCHANGED currentScope
           ELSE
               /\ currentScope' = Append(currentScope, EmptyScope)
               /\ stack' = stack \o <<IfFrame(node, isUnreachable, FALSE, "then"),
                                      BlockFrame(node.thenItems, TRUE, parentScope)>>
               /\ UNCHANGED result
    /\ UNCHANGED <<root, firstOutcome, currentFunction, currentFunctionReturnType, hasReturn,
                   isUnreachable, lastCheck>>

\* analyzeIf after the then block: the else block is entered, or, without
\* one, the if is over
AnalyzeIfAfterThen ==
    /\ result.type = "RUNNING" /\ stack # <<>>
    /\ Top.kind = "If" /\ Top.branch = "then"
    /\ LET frame == Top
           thenUnreachable == isUnreachable
       IN  /\ isUnreachable' = frame.prevUnreachable
           /\ IF frame.node.elseItems # <<>>
              THEN /\ currentScope' = Append(currentScope, EmptyScope)
                   /\ stack' = Popped \o
                               <<IfFrame(frame.node, frame.prevUnreachable,
                                         thenUnreachable, "else"),
                                 BlockFrame(frame.node.elseItems, TRUE, Len(currentScope))>>
              ELSE /\ stack' = Advance(Popped)
                   /\ UNCHANGED currentScope
    /\ UNCHANGED <<root, firstOutcome, currentFunction, currentFunctionReturnType, hasReturn,
                   result, lastCheck>>

unreachableAfterElse_Either(prevUnreachable, thenUnreachable, elseUnreachable) ==
    IF thenUnreachable \/ elseUnreachable THEN TRUE ELSE prevUnreachable

\* the flag analyzeIf leaves behind an if with an else block
unreachableAfterElse(prevUnreachable, thenUnreachable, elseUnreachable) ==
    IF thenUnreachable /\ elseUnreachable THEN TRUE ELSE prevUnreachable

\* analyzeIf after the else block
AnalyzeIfAfterElse ==
    /\ result.type = "RUNNING" /\ stack # <<>>
    /\ Top.kind = "If" /\ Top.branch = "else"
    /\ LET frame == Top
           elseUnreachable == isUnreachable
       IN  /\ isUnreachable' = unreachableAfterElse(frame.prevUnreachable,
                                                    frame.thenUnreachable, elseUnreachable)
           /\ stack' = Advance(Popped)
    /\ UNCHANGED <<root, firstOutcome, currentScope, currentFunction, currentFunctionReturnType,
                   hasReturn, result, lastCheck>>

-----------------------------------------------------------------------------
(* analyzeWhile                                                            *)

AnalyzeWhile ==
    /\ AtItem /\ Top.kind = "Block" /\ Item.kind = "WhileStmt"
    /\ LET node == Item
           cond == analyzeExpr(currentScope, node.condition)
           parentScope == Len(currentScope)
       IN  IF isUnreachable THEN
               /\ Throw(SemanticException("UNREACHABLE_CODE", NoContext))
               /\ UNCHANGED currentScope
           ELSE IF Threw(cond) THEN
               /\ Throw(cond.thrown)
               /\ UNCHANGED currentScope
           ELSE IF ~isBoolCondition(cond.type) THEN
               /\ Throw(SemanticException("CONDITION_NOT_BOOL", ActualType(cond.type)))
               /\ UNCHANGED currentScope
           ELSE
               /\ currentScope' = Append(currentScope, EmptyScope)
               /\ stack' = stack \o <<WhileFrame(node, isUnreachable),
                                      BlockFrame(node.bodyItems, TRUE, parentScope)>>
               /\ UNCHANGED result
    /\ UNCHANGED <<root, firstOutcome, currentFunction, currentFunctionReturnType, hasReturn,
                   isUnreachable, lastCheck>>

AnalyzeWhileReturn_FlagKept ==
    /\ result.type = "RUNNING" /\ stack # <<>>
    /\ Top.kind = "While"
    /\ isUnreachable' = isUnreachable
    /\ stack' = Advance(Popped)
    /\ UNCHANGED <<root, firstOutcome, currentScope, currentFunction, currentFunctionReturnType,
                   hasReturn, result, lastCheck>>

AnalyzeWhileReturn ==
    /\ result.type = "RUNNING" /\ stack # <<>>
    /\ Top.kind = "While"
    /\ isUnreachable' = Top.prevUnreachable
    /\ stack' = Advance(Popped)
    /\ UNCHANGED <<root, firstOutcome, currentScope, currentFunction, currentFunctionReturnType,
                   hasReturn, result, lastCheck>>

-----------------------------------------------------------------------------
(* The programs analyzed.  Every family is a set of ASTs built from a few  *)
(* node shapes; the bounds are the sizes up to which they are built.       *)

MaxNodes == 3       \* code items in a generated function body, nested ones included

RECURSIVE BlocksOfSize(_, _)
RECURSIVE ItemsOfSize(_, _)
\* the blocks of exactly n items in all, over the simple items S
BlocksOfSize(n, S) ==
    IF n = 0 THEN {<<>>}
    ELSE UNION {{<<item>> \o rest : item \in ItemsOfSize(k, S),
                                   rest \in BlocksOfSize(n - k, S)} : k \in 1..n}
ItemsOfSize(k, S) ==
    (IF k = 1 THEN S ELSE {})
    \cup UNION {{IfStmtNode(IdentifierNode("b"), thenItems, elseItems) :
                    thenItems \in BlocksOfSize(a, S),
                    elseItems \in BlocksOfSize(k - 1 - a, S)} : a \in 0..(k - 1)}
    \cup {WhileStmtNode(BoolNode, bodyItems) : bodyItems \in BlocksOfSize(k - 1, S)}
    \cup {FunctionDeclNode("h", <<>>, "INT", bodyItems) :
             bodyItems \in BlocksOfSize(k - 1, S)}

BlocksUpTo(n, S) == UNION {BlocksOfSize(m, S) : m \in 0..n}

SeqsUpTo(S, n) == UNION {[1..m -> S] : m \in 0..n}

MaxArgs == 2        \* parameters of a generated function, arguments of a generated call
MaxDecls == 3       \* top-level declarations of a generated declaration order

ControlFlowItems ==
    {ReturnStmtNode(IntegerNode), PrintStmtNode(IntegerNode),
     VarDeclNode(FALSE, "x", "int", IntegerNode)}

\* func f(b: bool) -> int { body }, every body up to MaxNodes items
ControlFlowPrograms ==
    {<<FunctionDeclNode("f", <<Parameter("b", "BOOL")>>, "INT", body)>> :
        body \in BlocksUpTo(MaxNodes, ControlFlowItems)}

Branches ==
    {<<>>, <<ReturnStmtNode(IntegerNode)>>, <<PrintStmtNode(IntegerNode)>>,
     <<PrintStmtNode(IntegerNode), ReturnStmtNode(IntegerNode)>>,
     <<WhileStmtNode(BoolNode, <<ReturnStmtNode(IntegerNode)>>)>>,
     <<IfStmtNode(IdentifierNode("b"), <<ReturnStmtNode(IntegerNode)>>,
                  <<ReturnStmtNode(IntegerNode)>>)>>}

\* func f(b: bool) -> int { if b { then } else { else }  rest }
AfterIfPrograms ==
    {<<FunctionDeclNode("f", <<Parameter("b", "BOOL")>>, "INT",
                        <<IfStmtNode(IdentifierNode("b"), thenItems, elseItems)>> \o rest)>> :
        thenItems \in Branches, elseItems \in Branches,
        rest \in BlocksUpTo(1, ControlFlowItems)}

LoopConditions ==
    {BoolNode, IdentifierNode("b"), BinaryOpNode(IntegerNode, "<", FloatNode),
     BinaryOpNode(IdentifierNode("b"), "==", BoolNode)}

\* func f(b: bool) -> int { while cond { body }  rest }
LoopPrograms ==
    {<<FunctionDeclNode("f", <<Parameter("b", "BOOL")>>, "INT",
                        <<WhileStmtNode(condition, bodyItems)>> \o rest)>> :
        condition \in LoopConditions, bodyItems \in Branches,
        rest \in BlocksUpTo(1, ControlFlowItems)}

\* func f() -> R { body }, R Unit or Int, with empty returns and a statement
\* analyzeStmt has no branch for
UnitItems ==
    {ReturnStmtNode(NullExpr), PrintStmtNode(IntegerNode), ExprStmtNode(IntegerNode)}
UnitPrograms ==
    {<<FunctionDeclNode("f", <<>>, returnType, body)>> :
        returnType \in {"IOTA", "INT"}, body \in SeqsUpTo(UnitItems, 2)}

AlternateItems ==
    {ReturnNode(IntegerNode), PrintNode(IdentifierNode("z")),
     AssignmentNode("z", IntegerNode),
     IfNode(IntegerNode, PrintNode(IntegerNode), NullStmt),
     WhileNode(IntegerNode, ReturnNode(IntegerNode)),
     ExprStmtNode(IdentifierNode("z")),
     PrintStmtNode(IntegerNode), ReturnStmtNode(IntegerNode)}

\* func f() -> int { body }: statements of the alternate classes as items of
\* the function body, of an if branch and of a while body
AlternatePrograms ==
    {<<FunctionDeclNode("f", <<>>, "INT", body)>> : body \in SeqsUpTo(AlternateItems, 2)}
    \cup
    {<<FunctionDeclNode("f", <<>>, "INT",
                        <<IfStmtNode(BoolNode, <<item>>, <<item>>),
                          ReturnStmtNode(IntegerNode)>>)>> : item \in AlternateItems}
    \cup
    {<<FunctionDeclNode("f", <<>>, "INT",
                        <<WhileStmtNode(BoolNode, <<item>>),
                          ReturnStmtNode(IntegerNode)>>)>> : item \in AlternateItems}

\* [var a: T := 1;] func f(b: bool) -> int { body } [var c: int := 1;]: programs
\* whose analysis ends in every state of the context fields
RepeatPrograms ==
    {before \o <<FunctionDeclNode("f", <<Parameter("b", "BOOL")>>, "INT", body)>> \o after :
        before \in {<<>>, <<VarDeclNode(FALSE, "a", "int", IntegerNode)>>,
                     <<VarDeclNode(FALSE, "a", "float", BoolNode)>>},
        body \in BlocksUpTo(2, ControlFlowItems),
        after \in {<<>>, <<VarDeclNode(FALSE, "c", "int", IntegerNode)>>}}

ScopeItems ==
    {VarDeclNode(FALSE, "x", "int", IntegerNode), PrintStmtNode(IdentifierNode("x"))}

\* [const x: float := 1;] func f(b: bool [, x: bool | , b: int]) { body }: declarations of x
\* and references to x in every arrangement of blocks up to MaxNodes items
ScopePrograms ==
    {globals \o <<FunctionDeclNode("f", <<Parameter("b", "BOOL")>> \o parameters,
                                   "IOTA", body)>> :
        globals \in {<<>>, <<VarDeclNode(TRUE, "x", "float", IntegerNode)>>},
        parameters \in {<<>>, <<Parameter("x", "BOOL")>>, <<Parameter("b", "INT")>>},
        body \in BlocksUpTo(MaxNodes, ScopeItems)}

TypeNames == {"int", "float", "bool", "unit"}
TypedExprs == {IntegerNode, FloatNode, BoolNode, FunctionCallNode("u", <<>>)}
UnitFunction == FunctionDeclNode("u", <<>>, "IOTA", <<>>)

\* the three gates of assignment compatibility, every target against every
\* source: an initializer, an assignment and a return value
CompatPrograms ==
    {<<UnitFunction, VarDeclNode(isConstant, "x", typeName, expr)>> :
        isConstant \in BOOLEAN, typeName \in TypeNames, expr \in TypedExprs}
    \cup
    {<<UnitFunction, VarDeclNode(isConstant, "x", typeName, NullExpr),
       FunctionDeclNode("f", <<>>, "IOTA", <<AssignmentStmtNode(name, expr)>>)>> :
        isConstant \in BOOLEAN, typeName \in TypeNames, expr \in TypedExprs,
        name \in {"x", "u", "y"}}
    \cup
    {<<UnitFunction,
       FunctionDeclNode("f", <<>>, stringToDataType(typeName), <<ReturnStmtNode(expr)>>)>> :
        typeName \in TypeNames, expr \in TypedExprs}

\* func u() { }  var x: int := left op right, every operator over every pair
\* of operand types
BinaryPrograms ==
    {<<UnitFunction, VarDeclNode(FALSE, "x", "int", BinaryOpNode(left, op, right))>> :
        left \in TypedExprs, right \in TypedExprs,
        op \in ArithmeticOps \cup ComparisonOps \cup EqualityOps}

ReturnValues == TypedExprs \cup {NullExpr}

\* func u() { }  func f() -> R { return e } and
\* func f() -> R { func g() -> Q { return d }  return e }
ReturnPrograms ==
    {<<UnitFunction,
       FunctionDeclNode("f", <<>>, returnType, <<ReturnStmtNode(value)>>)>> :
        returnType \in DataTypes, value \in ReturnValues}
    \cup
    {<<UnitFunction,
       FunctionDeclNode("f", <<>>, returnType,
           <<FunctionDeclNode("g", <<>>, innerType, <<ReturnStmtNode(innerValue)>>),
             ReturnStmtNode(value)>>)>> :
        returnType \in DataTypes, value \in ReturnValues,
        innerType \in {"INT", "IOTA"}, innerValue \in {IntegerNode, NullExpr}}

BothReturn == IfStmtNode(IdentifierNode("p"), <<ReturnStmtNode(NullExpr)>>,
                         <<ReturnStmtNode(NullExpr)>>)
IllTyped == BinaryOpNode(IntegerNode, "+", BoolNode)

\* func u() { }  const c: int := 1  var x: int := 1
\* func f(p: bool) { [if p { return } else { return }]  name := value }
AssignmentPrograms ==
    {<<UnitFunction, VarDeclNode(TRUE, "c", "int", IntegerNode),
       VarDeclNode(FALSE, "x", "int", IntegerNode),
       FunctionDeclNode("f", <<Parameter("p", "BOOL")>>, "IOTA",
                        before \o <<AssignmentStmtNode(name, value)>>)>> :
        before \in {<<>>, <<BothReturn>>},
        name \in {"x", "c", "u", "y", "p"},
        value \in {IntegerNode, FloatNode, IdentifierNode("z"), IllTyped}}

\* func u() { }  [var x: int := 1]
\* func f(p: bool) { [var x: int := 1]  [if p { return } else { return }]
\*                   var|const x: T := init }
\* and  func u() { }  var|const u: T := init
VarDeclPrograms ==
    {<<UnitFunction>> \o outer \o
     <<FunctionDeclNode("f", <<Parameter("p", "BOOL")>>, "IOTA",
                        before \o <<VarDeclNode(isConstant, "x", typeName, init)>>)>> :
        outer \in {<<>>, <<VarDeclNode(FALSE, "x", "int", IntegerNode)>>},
        before \in {<<>>, <<BothReturn>>, <<VarDeclNode(FALSE, "x", "int", IntegerNode)>>,
                    <<VarDeclNode(FALSE, "x", "int", IntegerNode), BothReturn>>},
        isConstant \in BOOLEAN, typeName \in {"int", "bool"},
        init \in {IdentifierNode("x"), IntegerNode, FloatNode, IllTyped, NullExpr}}
    \cup
    {<<UnitFunction, VarDeclNode(isConstant, "u", "int", init)>> :
        isConstant \in BOOLEAN, init \in {IdentifierNode("u"), FloatNode, IllTyped}}

ConditionExprs ==
    {IntegerNode, FloatNode, BoolNode, FunctionCallNode("u", <<>>), IdentifierNode("b"),
     IdentifierNode("z"), BinaryOpNode(IntegerNode, "+", FloatNode),
     UnaryOpNode("-", IntegerNode)}

\* func u() { }  func f(b: bool) { if cond { var x .. } else { .. } } and the
\* same with while: conditions of every type, and one that does not type
ConditionPrograms ==
    {<<UnitFunction,
       FunctionDeclNode("f", <<Parameter("b", "BOOL")>>, "IOTA",
                        <<IfStmtNode(condition,
                                     <<VarDeclNode(FALSE, "x", "int", IntegerNode)>>,
                                     elseItems)>>)>> :
        condition \in ConditionExprs, elseItems \in {<<>>, <<PrintStmtNode(IntegerNode)>>}}
    \cup
    {<<UnitFunction,
       FunctionDeclNode("f", <<Parameter("b", "BOOL")>>, "IOTA",
                        <<WhileStmtNode(condition,
                                        <<VarDeclNode(FALSE, "x", "int", IntegerNode)>>)>>)>> :
        condition \in ConditionExprs}

ParameterNames == <<"a", "b", "c", "d">>
ArgumentExprs == {IntegerNode, FloatNode, BoolNode, IdentifierNode("z")}

\* func g(a: A, b: B, ..) -> int { return 1; }  var r: int := g(e1, e2, ..);
CallPrograms ==
    {<<FunctionDeclNode("g",
                        [k \in 1..Len(types) |-> Parameter(ParameterNames[k], types[k])],
                        "INT", <<ReturnStmtNode(IntegerNode)>>),
       VarDeclNode(FALSE, "r", "int", FunctionCallNode("g", arguments))>> :
        types \in SeqsUpTo({"INT", "FLOAT", "BOOL"}, MaxArgs),
        arguments \in SeqsUpTo(ArgumentExprs, MaxArgs)}

\* var q: int := 1  func g(a: int) -> int { return 1 }  var r: int := h(..)
\* and the same with q(..): a name bound nowhere and the name of a variable
CalleePrograms ==
    {<<VarDeclNode(FALSE, "q", "int", IntegerNode),
       FunctionDeclNode("g", <<Parameter("a", "INT")>>, "INT",
                        <<ReturnStmtNode(IntegerNode)>>),
       VarDeclNode(FALSE, "r", "int", FunctionCallNode(callee, arguments))>> :
        callee \in {"h", "q"},
        arguments \in SeqsUpTo({IntegerNode, IdentifierNode("z")}, MaxArgs)}

DeclareX == VarDeclNode(FALSE, "x", "int", IntegerNode)

\* [const x: float := 1.0]
\* func f(a: int, b: bool) { [var x]  func h([x: bool | a: bool]) { print x | print a }  [var x] }
\* and the same with the body of f inside if b { .. }
NestedPrograms ==
    {globals \o
     <<FunctionDeclNode("f", <<Parameter("a", "INT"), Parameter("b", "BOOL")>>, "IOTA",
         IF inBlock THEN <<IfStmtNode(IdentifierNode("b"), body, <<>>)>> ELSE body)>> :
        globals \in {<<>>, <<VarDeclNode(TRUE, "x", "float", FloatNode)>>},
        inBlock \in BOOLEAN,
        body \in {before \o
                  <<FunctionDeclNode("h", parameters, "IOTA",
                                     <<PrintStmtNode(IdentifierNode(name))>>)>> \o after :
                     before \in {<<>>, <<DeclareX>>}, after \in {<<>>, <<DeclareX>>},
                     parameters \in {<<>>, <<Parameter("x", "BOOL")>>,
                                     <<Parameter("a", "BOOL")>>},
                     name \in {"x", "a"}}}

\* func f(p: bool) { first  rest }: an item that may end the path, then an
\* item that no rule checks for reachability
FlagPrograms ==
    {<<FunctionDeclNode("f", <<Parameter("p", "BOOL")>>, "IOTA", first \o rest)>> :
        first \in {<<>>, <<BothReturn>>, <<ReturnStmtNode(NullExpr)>>,
                   <<WhileStmtNode(BoolNode, <<ReturnStmtNode(NullExpr)>>)>>,
                   <<IfStmtNode(IdentifierNode("p"), <<ReturnStmtNode(NullExpr)>>, <<>>)>>},
        rest \in {<<>>, <<ExprStmtNode(IntegerNode)>>, <<ReturnNode(IntegerNode)>>,
                  <<FunctionDeclNode("h", <<>>, "IOTA", <<ReturnStmtNode(NullExpr)>>)>>}}

CallH == PrintStmtNode(FunctionCallNode("h", <<>>))
DeclareH == VarDeclNode(FALSE, "h", "int", IntegerNode)

\* [func h() -> int { return 1 }]
\* func f() { [var h | func h() { }]  func h() { [print h()] }  [print h() | var h] }
NestedCallPrograms ==
    {globals \o
     <<FunctionDeclNode("f", <<>>, "IOTA",
          before \o <<FunctionDeclNode("h", <<>>, "IOTA", inner)>> \o after)>> :
        globals \in {<<>>, <<FunctionDeclNode("h", <<>>, "INT",
                                               <<ReturnStmtNode(IntegerNode)>>)>>},
        before \in {<<>>, <<DeclareH>>, <<FunctionDeclNode("h", <<>>, "IOTA", <<>>)>>},
        inner \in {<<>>, <<CallH>>},
        after \in {<<>>, <<CallH>>, <<DeclareH>>}}

CallG == PrintStmtNode(FunctionCallNode("g", <<>>))
ReadV == PrintStmtNode(IdentifierNode("v"))
TopLevelDecls ==
    {FunctionDeclNode("f", <<>>, "IOTA", <<CallG>>),
     FunctionDeclNode("f", <<Parameter("g", "INT")>>, "IOTA", <<CallG>>),
     FunctionDeclNode("f", <<>>, "IOTA",
                      <<VarDeclNode(FALSE, "g", "int", IntegerNode), CallG>>),
     FunctionDeclNode("f", <<>>, "IOTA", <<ReadV>>),
     FunctionDeclNode("f", <<Parameter("v", "INT")>>, "IOTA", <<ReadV>>),
     FunctionDeclNode("g", <<>>, "INT", <<ReturnStmtNode(IntegerNode)>>),
     FunctionDeclNode("g", <<>>, "IOTA",
                      <<PrintStmtNode(FunctionCallNode("f", <<>>))>>),
     FunctionDeclNode("v", <<>>, "IOTA", <<>>),
     VarDeclNode(FALSE, "v", "int", IntegerNode),
     VarDeclNode(FALSE, "g", "int", IntegerNode)}

\* top-level declarations in every order
HoistPrograms == SeqsUpTo(TopLevelDecls, MaxDecls)

Programs ==
    ControlFlowPrograms \cup AfterIfPrograms \cup LoopPrograms \cup UnitPrograms
    \cup ScopePrograms \cup AlternatePrograms \cup RepeatPrograms \cup ConditionPrograms
    \cup BinaryPrograms \cup ReturnPrograms \cup AssignmentPrograms
    \cup VarDeclPrograms \cup CalleePrograms \cup NestedPrograms
    \cup FlagPrograms \cup NestedCallPrograms
    \cup CompatPrograms \cup CallPrograms \cup HoistPrograms

-----------------------------------------------------------------------------
(* The specification                                                       *)

Init ==
    /\ root \in Programs
    /\ currentScope = <<>>
    /\ currentFunction = ""
    /\ currentFunctionReturnType = "IOTA"
    /\ hasReturn = FALSE
    /\ isUnreachable = FALSE
    /\ stack = <<>>
    /\ result = Idle
    /\ lastCheck = NoCheck
    /\ firstOutcome = NoThrow

Next ==
    \/ AnalyzeProgram
    \/ AnalyzeProgramReturn
    \/ AnalyzeVarDecl
    \/ AnalyzeFunctionDecl
    \/ AnalyzeFunctionDeclReturn
    \/ AnalyzeBlockUnreachable
    \/ AnalyzeBlockReturn
    \/ AnalyzeStmtNoBranch
    \/ AnalyzeAssignment
    \/ AnalyzeReturn
    \/ AnalyzePrint
    \/ AnalyzeIf
    \/ AnalyzeIfAfterThen
    \/ AnalyzeIfAfterElse
    \/ AnalyzeWhile
    \/ AnalyzeWhileReturn

Spec == Init /\ [][Next]_vars

\* the same analyzer asked twice
NextTwice == Next \/ AnalyzeProgramAgain

SpecTwice == Init /\ [][NextTwice]_vars

-----------------------------------------------------------------------------
(* Where the walk stands, in terms of the AST                              *)

IsRunning == result.type = "RUNNING" /\ stack # <<>>
Ended == result.type \notin {"IDLE", "RUNNING"}

\* the block loop stands right behind item Top.i - 1, which has been analyzed
BehindItem == IsRunning /\ Top.kind = "Block" /\ Top.i > 1
Previous == Top.block[Top.i - 1]
MoreItems == Top.i <= Len(Top.block)

\* the body of a function has been analyzed and analyzeFunctionDecl goes on
BodyAnalyzed == IsRunning /\ Top.kind = "Function"

ContextUnchanged ==
    UNCHANGED <<currentScope, currentFunction, currentFunctionReturnType, hasReturn,
                isUnreachable, lastCheck>>

-----------------------------------------------------------------------------
(* C1: assignment compatibility                                            *)

CompatibilityTable(target, source) ==
    \/ target = source
    \/ <<target, source>> \in {<<"FLOAT", "INT">>, <<"BOOL", "INT">>, <<"INT", "BOOL">>}

\* C1: every isAssignmentCompatible(target, source) call the walk makes for
\* an initializer, an assignment or a return value answers true exactly when
\* target = source or (target, source) is (Float, Int), (Bool, Int) or
\* (Int, Bool); the three gates reach all sixteen pairs of the four types.
C1_CompatibilityTable ==
    lastCheck.made =>
        (lastCheck.answer <=> CompatibilityTable(lastCheck.target, lastCheck.source))

C1_Witness ==
    /\ lastCheck.made /\ lastCheck.target = "IOTA" /\ lastCheck.source = "IOTA"
    /\ lastCheck.answer /\ result.type = "RUNNING"

-----------------------------------------------------------------------------
(* C2: dead code after a return                                            *)

\* a return statement has passed its checks and an item follows it in the
\* same block
ReturnThenItem == BehindItem /\ Previous.kind = "ReturnStmt" /\ MoreItems

\* C2: when a return statement of a block has passed its checks and the
\* block has a next item, of whatever kind, the walk can go on, and its
\* only step ends the analysis with unreachable_code and leaves the scopes
\* and the context as they are: the next item is not analyzed.
C2_DeadCodeAfterReturn ==
    /\ [](ReturnThenItem => ENABLED <<Next>>_vars)
    /\ [][ReturnThenItem =>
            /\ result' = SemanticException("UNREACHABLE_CODE", NoContext)
            /\ stack' = <<>>
            /\ ContextUnchanged]_vars

C2_Witness ==
    /\ ReturnThenItem /\ Item.kind = "FunctionDecl"
    /\ Len(stack) > 3

-----------------------------------------------------------------------------
(* C3: definite return                                                     *)

RECURSIVE FunctionDeclsIn(_)
\* the function declarations of a block, nested ones included
FunctionDeclsIn(block) ==
    UNION {LET item == block[k]
           IN  IF item.kind = "FunctionDecl"
               THEN {item} \cup FunctionDeclsIn(item.bodyItems)
               ELSE IF item.kind = "IfStmt"
               THEN FunctionDeclsIn(item.thenItems) \cup FunctionDeclsIn(item.elseItems)
               ELSE IF item.kind = "WhileStmt"
               THEN FunctionDeclsIn(item.bodyItems)
               ELSE {} : k \in 1..Len(block)}

RECURSIVE PathEndsFrom(_, _)
\* How a syntactic path through a block, from item i on, can end: in a
\* return statement, or by falling off the end of the block.  An if is left
\* through either branch (an empty else falls through), a while body is
\* entered or skipped, a nested function declaration is passed by.
PathEndsFrom(block, i) ==
    IF i > Len(block) THEN {"end"}
    ELSE LET item == block[i]
             ends == IF item.kind = "ReturnStmt" THEN {"return"}
                     ELSE IF item.kind = "IfStmt"
                     THEN PathEndsFrom(item.thenItems, 1) \cup PathEndsFrom(item.elseItems, 1)
                     ELSE IF item.kind = "WhileStmt"
                     THEN {"end"} \cup PathEndsFrom(item.bodyItems, 1)
                     ELSE {"end"}
         IN  (ends \cap {"return"})
             \cup (IF "end" \in ends THEN PathEndsFrom(block, i + 1) ELSE {})

EveryPathReturns(block) == PathEndsFrom(block, 1) = {"return"}

\* C3: in an accepted program every syntactic path through the body of
\* every function with a non-Unit return type, nested functions included,
\* ends in a return statement of that function.
C3_DefiniteReturn ==
    result.type = "ACCEPTED" =>
        \A function \in FunctionDeclsIn(root) :
            function.returnType # "IOTA" => EveryPathReturns(function.bodyItems)

C3_Witness ==
    /\ result.type = "ACCEPTED"
    /\ \E function \in FunctionDeclsIn(root) :
          /\ function.returnType # "IOTA"
          /\ \E k \in 1..Len(function.bodyItems) :
                /\ function.bodyItems[k].kind = "IfStmt"
                /\ function.bodyItems[k].elseItems # <<>>
                /\ k = Len(function.bodyItems)

-----------------------------------------------------------------------------
(* C4: reachability after an if                                            *)

\* the block loop stands right behind an if statement analyzed without a
\* diagnostic
IfAnalyzed == BehindItem /\ Previous.kind = "IfStmt"

EndsInReturn(block) == block # <<>> /\ block[Len(block)].kind = "ReturnStmt"

BothBranchesReturn(node) ==
    /\ node.kind = "IfStmt"
    /\ EndsInReturn(node.thenItems) /\ EndsInReturn(node.elseItems)

RECURSIVE EndsUnreachable(_)
\* A block analyzed without a diagnostic ends unreachable: its last item is
\* a return statement, or an if whose two branches both end unreachable.
EndsUnreachable(block) ==
    /\ block # <<>>
    /\ LET last == block[Len(block)]
       IN  \/ last.kind = "ReturnStmt"
           \/ /\ last.kind = "IfStmt"
              /\ last.elseItems # <<>>
              /\ EndsUnreachable(last.thenItems)
              /\ EndsUnreachable(last.elseItems)

\* the statement forms with a rule of their own, and declarations of variables
CheckedItemKinds == HandledStmtKinds \cup {"VarDecl"}

\* C4: after an if statement analyzed without a diagnostic, isUnreachable is
\* true exactly when the if has an else branch and both branches ended
\* unreachable, and otherwise has its value from before the if: the then
\* flag is captured and the flag reset before the else branch, and the two
\* captured flags are combined at the end.  So a statement or variable
\* declaration after an if/else that returns in both branches yields
\* unreachable_code, one after any other if does not, and a non-Unit
\* function whose body ends in an if/else returning in both branches passes
\* the missing-return check.
C4_IfReachability ==
    /\ [](IfAnalyzed =>
            (isUnreachable <=> /\ Previous.elseItems # <<>>
                               /\ EndsUnreachable(Previous.thenItems)
                               /\ EndsUnreachable(Previous.elseItems)))
    /\ [][IsRunning /\ Top.kind = "If" /\ Top.branch = "then" =>
            /\ isUnreachable' = Top.prevUnreachable
            /\ result' = result
            /\ Top.node.elseItems # <<>> =>
                  /\ stack'[Len(stack)].kind = "If"
                  /\ stack'[Len(stack)].thenUnreachable = isUnreachable
                  /\ stack'[Len(stack)].prevUnreachable = Top.prevUnreachable]_vars
    /\ [][IsRunning /\ Top.kind = "If" /\ Top.branch = "else" =>
            /\ isUnreachable' = IF Top.thenUnreachable /\ isUnreachable THEN TRUE
                                 ELSE Top.prevUnreachable
            /\ result' = result]_vars
    /\ [](IfAnalyzed /\ MoreItems => ENABLED <<Next>>_vars)
    /\ [][IfAnalyzed /\ MoreItems /\ Item.kind \in CheckedItemKinds =>
            IF BothBranchesReturn(Previous)
            THEN result' = SemanticException("UNREACHABLE_CODE", NoContext)
            ELSE isUnreachable \/ result'.type # "UNREACHABLE_CODE"]_vars
    /\ [][IfAnalyzed /\ MoreItems /\ Item.kind \in CheckedItemKinds
            /\ (Previous.elseItems = <<>> \/ ~EndsUnreachable(Previous.thenItems)
                  \/ ~EndsUnreachable(Previous.elseItems)) =>
            result'.type # "UNREACHABLE_CODE"]_vars
    /\ [][/\ BodyAnalyzed /\ Top.node.returnType # "IOTA"
            /\ Top.node.bodyItems # <<>>
            /\ BothBranchesReturn(Top.node.bodyItems[Len(Top.node.bodyItems)]) =>
            result' = result]_vars

C4_Witness ==
    /\ IfAnalyzed /\ BothBranchesReturn(Previous) /\ isUnreachable
    /\ MoreItems /\ Item.kind = "VarDecl"

-----------------------------------------------------------------------------
(* C5: a while loop is never a terminator                                  *)

WhileAnalyzed == BehindItem /\ Previous.kind = "WhileStmt"

RECURSIVE ReturnOutsideLoops(_)
\* the block has a return statement of its function that is in no while body
ReturnOutsideLoops(block) ==
    \E k \in 1..Len(block) :
        \/ block[k].kind = "ReturnStmt"
        \/ /\ block[k].kind = "IfStmt"
           /\ \/ ReturnOutsideLoops(block[k].thenItems)
              \/ ReturnOutsideLoops(block[k].elseItems)

\* the body of a non-Unit function has been analyzed and every return
\* statement of the function lies in a while body
OnlyLoopsReturn ==
    /\ BodyAnalyzed /\ Top.node.returnType # "IOTA"
    /\ ~ReturnOutsideLoops(Top.node.bodyItems)

\* C5: after a while statement analyzed without a diagnostic, isUnreachable
\* has its value from before the loop (false) whatever the body ends in, the
\* block is not marked dead and the next item does not yield
\* unreachable_code; a non-Unit function whose return statements all lie in
\* while bodies ends with missing_return naming it, for every condition of
\* type Bool.
C5_WhileNeverTerminates ==
    /\ [](WhileAnalyzed => ~isUnreachable /\ ~Top.blockUnreachable)
    /\ [][AtItem /\ Item.kind = "WhileStmt" /\ result' = result =>
            /\ stack'[Len(stack) + 1].kind = "While"
            /\ stack'[Len(stack) + 1].prevUnreachable = isUnreachable]_vars
    /\ [][IsRunning /\ Top.kind = "While" =>
            /\ isUnreachable' = Top.prevUnreachable
            /\ result' = result
            /\ stack' = Advance(Popped)]_vars
    /\ [][WhileAnalyzed /\ MoreItems => result'.type # "UNREACHABLE_CODE"]_vars
    /\ [](OnlyLoopsReturn => ENABLED <<Next>>_vars)
    /\ [][OnlyLoopsReturn =>
            result' = SemanticException("MISSING_RETURN",
                                        FunctionContext(Top.node.name))]_vars

C5_Witness ==
    /\ OnlyLoopsReturn /\ Top.node.bodyItems # <<>>
    /\ Top.node.bodyItems[1].kind = "WhileStmt"
    /\ Top.node.bodyItems[1].condition.kind = "BinaryOp"
    /\ EndsInReturn(Top.node.bodyItems[1].bodyItems)

-----------------------------------------------------------------------------
(* C6: hoisting                                                            *)

\* the walk stands before an item of the body of a top-level function, in
\* no nested function
InTopLevelBody ==
    /\ AtItem /\ Top.kind = "Block" /\ Len(stack) >= 3
    /\ stack[1].kind = "Program" /\ stack[2].kind = "Function"
    /\ \A k \in 3..Len(stack) : stack[k].kind # "Function"

\* the expression the item's rule types first
ItemExpr ==
    IF Item.kind = "PrintStmt" THEN Item.expression
    ELSE IF Item.kind \in {"AssignmentStmt", "ReturnStmt"} THEN Item.value
    ELSE IF Item.kind = "VarDecl" THEN Item.initializer
    ELSE NullExpr
ItemCalls(name) == ItemExpr.kind = "FunctionCall" /\ ItemExpr.functionName = name
ItemReads(name) == ItemExpr.kind = "Identifier" /\ ItemExpr.name = name

TopLevel(kind) == {k \in 1..Len(root) : root[k].kind = kind}

\* the Function symbol of a function declaration
DeclaredSymbol(funcDecl) ==
    FunctionSymbol(funcDecl.name,
                   [k \in 1..Len(funcDecl.parameters) |-> funcDecl.parameters[k].type],
                   funcDecl.returnType)

\* a scope of the function being analyzed (not the global one) binds the name
BoundLocally(name) == \E d \in 2..Len(currentScope) : name \in DOMAIN currentScope[d]

\* the top-level variables declared later than the function being analyzed,
\* and not before it
DeclaredLater ==
    {root[k].name : k \in {j \in TopLevel("VarDecl") : j > stack[1].i}}
    \ {root[k].name : k \in {j \in TopLevel("VarDecl") : j < stack[1].i}}

\* C6 as stated: in the body of a top-level function every call to a
\* top-level function g resolves to g's Function symbol, and every reference
\* to a top-level variable declared later is an undeclared identifier.
C6_HoistingUnconditional ==
    InTopLevelBody =>
        /\ \A k \in TopLevel("FunctionDecl") :
              ItemCalls(root[k].name) =>
                  lookup(currentScope, root[k].name) = DeclaredSymbol(root[k])
        /\ \A v \in DeclaredLater :
              ItemReads(v) =>
                  analyzeExpr(currentScope, ItemExpr).thrown =
                      SemanticException("UNDECLARED_IDENTIFIER", IdentifierContext(v))

\* C6: while the body of a top-level function f is analyzed the global scope
\* binds every top-level function g to its Function symbol, wherever g is
\* declared.  A call to g in the body never yields undeclared_function; it
\* resolves to g's Function symbol unless a parameter or local variable of f
\* has the name g, and then it yields not_a_function.  A reference to a
\* top-level variable v declared only later than f yields
\* undeclared_identifier unless a parameter or local variable of f has the
\* name v (it is that variable) or a top-level function has the name v
\* (function_used_as_variable).
C6_Hoisting ==
    /\ [](InTopLevelBody =>
            /\ \A k \in TopLevel("FunctionDecl") :
                  /\ root[k].name \in DOMAIN currentScope[1]
                  /\ currentScope[1][root[k].name] = DeclaredSymbol(root[k])
                  /\ ItemCalls(root[k].name) =>
                        IF BoundLocally(root[k].name)
                        THEN lookup(currentScope, root[k].name).kind = "VARIABLE"
                        ELSE lookup(currentScope, root[k].name) = DeclaredSymbol(root[k])
            /\ \A v \in DeclaredLater :
                  ItemReads(v) =>
                      LET typed == analyzeExpr(currentScope, ItemExpr)
                      IN  IF BoundLocally(v)
                          THEN ~Threw(typed) /\ lookup(currentScope, v).kind = "VARIABLE"
                          ELSE IF \E k \in TopLevel("FunctionDecl") : root[k].name = v
                          THEN typed.thrown = SemanticException("FUNCTION_USED_AS_VARIABLE",
                                                                FunctionContext(v))
                          ELSE typed.thrown = SemanticException("UNDECLARED_IDENTIFIER",
                                                                IdentifierContext(v)))
    /\ [][InTopLevelBody /\ ~isUnreachable /\ Item.kind = "PrintStmt" =>
            /\ \A k \in TopLevel("FunctionDecl") :
                  ItemCalls(root[k].name) =>
                      /\ result'.type # "UNDECLARED_FUNCTION"
                      /\ BoundLocally(root[k].name) =>
                            result' = SemanticException("NOT_A_FUNCTION",
                                                        IdentifierContext(root[k].name))
            /\ \A v \in DeclaredLater :
                  ItemReads(v) =>
                      IF BoundLocally(v) THEN result' = result
                      ELSE result'.type \in {"UNDECLARED_IDENTIFIER",
                                             "FUNCTION_USED_AS_VARIABLE"}]_vars

\* a call to a function declared later than the caller resolves
C6_Witness ==
    /\ InTopLevelBody
    /\ \E k \in TopLevel("FunctionDecl") :
          /\ k > stack[1].i /\ ItemCalls(root[k].name)
          /\ lookup(currentScope, root[k].name) = DeclaredSymbol(root[k])

-----------------------------------------------------------------------------
(* C7: scope isolation                                                     *)

\* the names the first n items of a block declare as variables or constants
DeclaredBy(block, n) == {block[j].name : j \in {m \in 1..n : block[m].kind = "VarDecl"}}

ParameterNamesOf(funcDecl) ==
    {funcDecl.parameters[j].name : j \in 1..Len(funcDecl.parameters)}

\* the activation records that made a scope: analyzeFunctionDecl and
\* analyzeBlock(.., true)
OwnsScope(frame) ==
    \/ frame.kind = "Function"
    \/ frame.kind = "Block" /\ frame.createNewScope

\* the place in the scope chain of the scope the record at k declares into
ScopeOf(k) == 1 + Cardinality({j \in 1..k : OwnsScope(stack[j])})

\* the names the record at k has bound so far in its scope
BoundBy(k) ==
    IF stack[k].kind = "Program"
    THEN {root[j].name : j \in TopLevel("FunctionDecl")}
         \cup DeclaredBy(root, stack[k].i - 1)
    ELSE IF stack[k].kind = "Function"
    THEN ParameterNamesOf(stack[k].node)
         \cup (IF k < Len(stack)
               THEN DeclaredBy(stack[k + 1].block, stack[k + 1].i - 1)
               ELSE DeclaredBy(stack[k].node.bodyItems, Len(stack[k].node.bodyItems)))
    ELSE DeclaredBy(stack[k].block, stack[k].i - 1)

\* the names declared directly in the blocks of an if or while statement
DeclaredInside(node) ==
    IF node.kind = "IfStmt"
    THEN DeclaredBy(node.thenItems, Len(node.thenItems))
         \cup DeclaredBy(node.elseItems, Len(node.elseItems))
    ELSE DeclaredBy(node.bodyItems, Len(node.bodyItems))

\* a record of the walk has bound the name: an enclosing scope binds it
EnclosingBinds(name) ==
    \E k \in 1..Len(stack) :
        /\ stack[k].kind = "Program" \/ OwnsScope(stack[k])
        /\ name \in BoundBy(k)

BlockAnalyzed == BehindItem /\ Previous.kind \in {"IfStmt", "WhileStmt"}

\* C7: the scope chain holds exactly one scope for the program and one for
\* every function and every if/while block being analyzed, and each scope
\* binds exactly the names declared so far in its own region.  So a block
\* starts with an empty scope, its scope is gone once it has been analyzed,
\* and a reference, in an item that follows, to a name declared in the
\* block yields undeclared_identifier unless an enclosing region has
\* declared the name.
C7_ScopeIsolation ==
    /\ [](IsRunning =>
            /\ Len(currentScope) = ScopeOf(Len(stack))
            /\ \A k \in 1..Len(stack) :
                  stack[k].kind = "Program" \/ OwnsScope(stack[k]) =>
                      DOMAIN currentScope[ScopeOf(k)] = BoundBy(k))
    /\ [][/\ BlockAnalyzed /\ MoreItems /\ ~isUnreachable
            /\ Item.kind = "PrintStmt" /\ ItemExpr.kind = "Identifier"
            /\ ItemExpr.name \in DeclaredInside(Previous)
            /\ ~EnclosingBinds(ItemExpr.name) =>
            result' = SemanticException("UNDECLARED_IDENTIFIER",
                                        IdentifierContext(ItemExpr.name))]_vars

C7_Witness ==
    /\ BlockAnalyzed /\ MoreItems /\ ~isUnreachable
    /\ ItemReads("x") /\ "x" \in DeclaredInside(Previous)
    /\ lookup(currentScope, "x").kind = "NONE"

-----------------------------------------------------------------------------
(* C8: redeclaration and shadowing                                         *)

RedeclarationTypes == {"REDECLARED_IDENTIFIER", "REDECLARED_FUNCTION"}

BoundInChain(name) == \E d \in 1..Len(currentScope) : name \in DOMAIN currentScope[d]

\* the walk stands before a reachable declaration of a variable or constant
AtVarDecl == AtItem /\ Item.kind = "VarDecl" /\ ~isUnreachable

AtFunctionDecl == AtItem /\ Item.kind = "FunctionDecl"

\* the parameters whose name an earlier parameter of the same function has
RepeatedParameters(funcDecl) ==
    {i \in 1..Len(funcDecl.parameters) :
        \E j \in 1..(i - 1) : funcDecl.parameters[j].name = funcDecl.parameters[i].name}

FirstOf(S) == CHOOSE i \in S : \A j \in S : i <= j

\* C8 as stated: no name is ever bound in two scopes of the chain, and a
\* declaration of a variable, constant or parameter whose name any scope of
\* the chain binds yields a redeclaration diagnostic.
C8_NoShadowing ==
    /\ [](\A d1, d2 \in 1..Len(currentScope) :
            d1 # d2 => DOMAIN currentScope[d1] \cap DOMAIN currentScope[d2] = {})
    /\ [][AtVarDecl /\ BoundInChain(Item.name) =>
            result'.type \in RedeclarationTypes]_vars
    /\ [][AtFunctionDecl /\ (\E n \in ParameterNamesOf(Item) : BoundInChain(n)) =>
            result'.type \in RedeclarationTypes]_vars

\* C8: a declaration of a variable or constant whose name the current scope
\* binds yields redeclared_function or redeclared_identifier, by the kind of
\* the symbol bound, and changes no scope; one whose name only enclosing
\* scopes bind yields no redeclaration diagnostic, and when its initializer
\* passes it binds the name a second time, in the current scope (shadowing).
\* Parameters start an empty scope: a repeated name yields
\* redeclared_identifier, and names bound in enclosing scopes are accepted.
\* No step overwrites or removes a binding of a scope that stays in the chain.
C8_RedeclarationInCurrentScope ==
    /\ [][AtVarDecl =>
            IF Item.name \in DOMAIN Current
            THEN /\ result' =
                      IF Current[Item.name].kind = "FUNCTION"
                      THEN SemanticException("REDECLARED_FUNCTION",
                                             FunctionContext(Item.name))
                      ELSE SemanticException("REDECLARED_IDENTIFIER",
                                             IdentifierContext(Item.name))
                 /\ currentScope' = currentScope
            ELSE /\ result'.type \notin RedeclarationTypes
                 /\ result' = result =>
                       /\ Len(currentScope') = Len(currentScope)
                       /\ DOMAIN currentScope'[Len(currentScope)] =
                              DOMAIN Current \cup {Item.name}
                       /\ currentScope'[Len(currentScope)][Item.name] =
                              VariableSymbol(Item.name, getDataType(Item), Item.isConstant)]_vars
    /\ [][AtFunctionDecl =>
            IF RepeatedParameters(Item) # {}
            THEN result' = SemanticException("REDECLARED_IDENTIFIER",
                               IdentifierContext(
                                   Item.parameters[FirstOf(RepeatedParameters(Item))].name))
            ELSE /\ result' = result
                 /\ Len(currentScope') = Len(currentScope) + 1
                 /\ DOMAIN currentScope'[Len(currentScope')] = ParameterNamesOf(Item)]_vars
    /\ [][\A d \in 1..Len(currentScope) :
            d <= Len(currentScope') =>
                \A n \in DOMAIN currentScope[d] :
                    /\ n \in DOMAIN currentScope'[d]
                    /\ currentScope'[d][n] = currentScope[d][n]]_vars

\* a variable of an if or while block shadows the constant of the global scope
C8_Witness ==
    /\ IsRunning /\ Len(currentScope) >= 3
    /\ "x" \in DOMAIN currentScope[1] /\ currentScope[1]["x"].isConstant
    /\ "x" \in DOMAIN Current /\ ~Current["x"].isConstant

-----------------------------------------------------------------------------
(* C9: scopes and context at the end of analyze()                          *)

\* C9 as stated: when analyze() has ended, by acceptance or by a
\* diagnostic, the current scope is the global scope and the four context
\* fields have the values they had before the walk.
C9_ResourceDiscipline ==
    Ended =>
        /\ Len(currentScope) = 1
        /\ currentFunction = ""
        /\ currentFunctionReturnType = "IOTA"
        /\ ~isUnreachable
        /\ ~hasReturn

-----------------------------------------------------------------------------
(* C10: the type lists of invalid_signature                                *)

\* C10 as stated: an invalid_signature diagnostic carries the expected
\* parameter types and the actual argument types in full, one type for each
\* argument of the call.
C10_FullTypeLists ==
    result.type = "INVALID_SIGNATURE" =>
        Len(result.context.actual) = Len(result.context.expected)

-----------------------------------------------------------------------------
(* C11: statements of a class analyzeStmt has no branch for                *)

RECURSIVE HasUnexpected(_)
\* the block has, at any depth, an item of a statement class without a rule
HasUnexpected(block) ==
    \E k \in 1..Len(block) :
        \/ block[k].kind \in UnhandledStmtKinds
        \/ block[k].kind = "IfStmt" /\ \/ HasUnexpected(block[k].thenItems)
                                       \/ HasUnexpected(block[k].elseItems)
        \/ block[k].kind \in {"WhileStmt", "FunctionDecl"}
              /\ HasUnexpected(block[k].bodyItems)

\* C11 as stated: a statement of an unexpected class, as an item of a
\* function, if or while body, is never passed over by the walk, and no
\* program that has one is accepted.
C11_UnexpectedVariantFails ==
    /\ ~(BehindItem /\ Previous.kind \in UnhandledStmtKinds)
    /\ result.type = "ACCEPTED" => ~HasUnexpected(root)

-----------------------------------------------------------------------------
(* C12: determinism                                                        *)

\* which steps of the walk the state allows
EnabledSteps ==
    <<ENABLED AnalyzeProgram, ENABLED AnalyzeProgramAgain, ENABLED AnalyzeProgramReturn,
      ENABLED AnalyzeVarDecl, ENABLED AnalyzeFunctionDecl,
      ENABLED AnalyzeFunctionDeclReturn, ENABLED AnalyzeBlockUnreachable,
      ENABLED AnalyzeBlockReturn, ENABLED AnalyzeStmtNoBranch, ENABLED AnalyzeAssignment,
      ENABLED AnalyzeReturn, ENABLED AnalyzePrint, ENABLED AnalyzeIf,
      ENABLED AnalyzeIfAfterThen, ENABLED AnalyzeIfAfterElse, ENABLED AnalyzeWhile,
      ENABLED AnalyzeWhileReturn>>

\* a second analyze() call on the same analyzer has ended
EndedAgain == Ended /\ firstOutcome.type # "NONE"

\* C12: the walk never has a choice (every state allows at most one step,
\* and a step is a function of the state), so two analyzers made for one AST
\* end in the same outcome; and a second analyze() call on the same
\* analyzer, after acceptance or a diagnostic, ends in the outcome of the
\* first: the same acceptance, or a diagnostic of the same kind and payload.
C12_Determinism ==
    /\ Cardinality({k \in 1..Len(EnabledSteps) : EnabledSteps[k]}) <= 1
    /\ EndedAgain => result = firstOutcome

\* the second call started with the unreachable flag left set by the first
C12_Witness ==
    /\ EndedAgain /\ firstOutcome.type = "UNREACHABLE_CODE"
    /\ root[1].kind = "VarDecl" /\ Len(currentScope) = 1

-----------------------------------------------------------------------------
(* C13: conditions are Bool exactly                                        *)

\* the walk stands before a reachable if or while statement
AtCondition ==
    /\ AtItem /\ Top.kind = "Block" /\ Item.kind \in {"IfStmt", "WhileStmt"}
    /\ ~isUnreachable

\* the type of the condition, when it has one
ConditionType == analyzeExpr(currentScope, Item.condition)

NotBoolCondition == AtCondition /\ ~Threw(ConditionType) /\ ConditionType.type # "BOOL"

\* C13: at a reachable if or while statement whose condition types to Int,
\* Float or Unit, the walk's one step ends the analysis with
\* condition_not_boolean carrying that type, an Int literal included; it
\* makes no scope and enters no branch or body.
C13_ExactBoolConditions ==
    /\ [](NotBoolCondition => ENABLED <<Next>>_vars)
    /\ [][NotBoolCondition =>
            /\ result' = SemanticException("CONDITION_NOT_BOOL",
                                           ActualType(ConditionType.type))
            /\ Item.condition.kind = "Integer" => result'.context.actual = "INT"
            /\ Item.condition.kind = "Float" => result'.context.actual = "FLOAT"
            /\ Item.condition.kind = "FunctionCall" => result'.context.actual = "IOTA"
            /\ stack' = <<>>
            /\ currentScope' = currentScope]_vars

C13_Witness ==
    /\ NotBoolCondition /\ Item.kind = "WhileStmt" /\ ConditionType.type = "IOTA"

-----------------------------------------------------------------------------
(* C14: binary operator typing                                             *)

Numeric == {"INT", "FLOAT"}

\* the reference table: the type of left op right, "invalid" when rejected
ReferenceBinaryType(op, left, right) ==
    CASE op \in {"+", "-", "*", "/"} ->
            IF left \notin Numeric \/ right \notin Numeric THEN "invalid"
            ELSE IF "FLOAT" \in {left, right} THEN "FLOAT" ELSE "INT"
      [] op \in {"<", ">", "<=", ">="} ->
            IF left \in Numeric /\ right \in Numeric THEN "BOOL" ELSE "invalid"
      [] op \in {"==", "!="} ->
            IF left = right THEN "BOOL" ELSE "invalid"

\* the type of an operand that is a literal or a call of the Unit function u
OperandType(expr) ==
    CASE expr.kind = "Integer" -> "INT"
      [] expr.kind = "Float" -> "FLOAT"
      [] expr.kind = "Bool" -> "BOOL"
      [] expr.kind = "FunctionCall" -> "IOTA"

\* the walk stands before var x: int := left op right with x not yet declared
AtBinaryInit ==
    /\ AtItem /\ Item.kind = "VarDecl" /\ ~isUnreachable
    /\ ~existsLocal(Current, Item.name)
    /\ Item.initializer.kind = "BinaryOp"
    /\ Item.initializer.left \in TypedExprs /\ Item.initializer.right \in TypedExprs

BinaryLeft == OperandType(Item.initializer.left)
BinaryRight == OperandType(Item.initializer.right)
BinaryExpected == ReferenceBinaryType(Item.initializer.op, BinaryLeft, BinaryRight)

\* C14: typing left op right, for each of the ten operators and each of the
\* sixteen pairs of operand types, gives the type of the reference table, seen
\* as the source of the compatibility check of the initializer, or, where the
\* table rejects the pair, ends the analysis with invalid_binary_operation
\* carrying the operator and both operand types.
C14_BinaryOperatorTable ==
    [][AtBinaryInit =>
         IF BinaryExpected = "invalid"
         THEN result' = SemanticException("INVALID_BINARY_OPERATION",
                            InvalidOperationBetweenTypes(Item.initializer.op,
                                                         BinaryLeft, BinaryRight))
         ELSE /\ lastCheck'.made /\ lastCheck'.source = BinaryExpected
              /\ result'.type # "INVALID_BINARY_OPERATION"]_vars

\* Int == Bool has been rejected
C14_Witness ==
    /\ result = SemanticException("INVALID_BINARY_OPERATION",
                                  InvalidOperationBetweenTypes("==", "INT", "BOOL"))
    /\ root \in BinaryPrograms

-----------------------------------------------------------------------------
(* C15: return checking                                                    *)

\* the innermost function declaration whose body the walk is in
FunctionFrames == {k \in 1..Len(stack) : stack[k].kind = "Function"}
EnclosingFunction ==
    stack[CHOOSE k \in FunctionFrames : \A j \in FunctionFrames : j <= k].node

\* the walk stands before a reachable return statement
AtReturn ==
    /\ AtItem /\ Top.kind = "Block" /\ Item.kind = "ReturnStmt"
    /\ ~isUnreachable

ReturnedType ==
    IF Item.value.kind = "Null" THEN Typed("IOTA")
    ELSE analyzeExpr(currentScope, Item.value)

ReturnAccepted(returnType) ==
    IF Item.value.kind = "Null" THEN returnType = "IOTA"
    ELSE CompatibilityTable(returnType, ReturnedType.type)

\* C15: a reachable return statement stands in the body of a function
\* declaration, and the function context is the name and return type R of the
\* innermost one.  When its expression, if any, has a type, the return passes
\* exactly when R is Unit (no expression) or R accepts the type, and then the
\* unreachable flag is set; otherwise the analysis ends with
\* return_type_mismatch carrying that name, R and the actual type, Unit for
\* an empty return.  With an empty function context the return gives
\* return_outside_function.
C15_ReturnChecking ==
    /\ [](AtReturn =>
            /\ FunctionFrames # {}
            /\ currentFunction = EnclosingFunction.name
            /\ currentFunctionReturnType = EnclosingFunction.returnType)
    /\ [][AtReturn /\ currentFunction = "" =>
            result'.type = "RETURN_OUTSIDE_FUNCTION"]_vars
    /\ [][AtReturn /\ currentFunction # "" /\ ~Threw(ReturnedType) =>
            IF ReturnAccepted(EnclosingFunction.returnType)
            THEN /\ result' = result /\ isUnreachable' /\ hasReturn'
                 /\ stack' # <<>>
            ELSE result' = SemanticException("RETURN_TYPE_MISMATCH",
                               ReturnTypeMismatch(EnclosingFunction.name,
                                                  EnclosingFunction.returnType,
                                                  ReturnedType.type))]_vars

\* the return of f after the nested g has been checked against f's Float
C15_Witness ==
    /\ root \in ReturnPrograms /\ Len(root[2].bodyItems) = 2
    /\ root[2].returnType = "FLOAT" /\ root[2].bodyItems[1].returnType = "INT"
    /\ BehindItem /\ Top.i = 3 /\ isUnreachable
    /\ lastCheck.target = "FLOAT" /\ lastCheck.source = "INT"

-----------------------------------------------------------------------------
(* C16: missing return                                                     *)

RECURSIVE AllPathsReturn(_)
\* the syntactic check: a block returns iff any of its items returns; a
\* return statement returns, an if returns iff both of its branches return,
\* no other item returns
AllPathsReturn(block) ==
    \E k \in 1..Len(block) :
        \/ block[k].kind = "ReturnStmt"
        \/ /\ block[k].kind = "IfStmt"
           /\ AllPathsReturn(block[k].thenItems)
           /\ AllPathsReturn(block[k].elseItems)

MissingReturn ==
    /\ Top.node.returnType # "IOTA"
    /\ ~AllPathsReturn(Top.node.bodyItems)

\* C16: when the whole body of a function has been analyzed without a
\* diagnostic, the analysis ends with missing_return naming the function if
\* its return type is not Unit and its body does not return on all paths,
\* and goes on otherwise, so for every Unit function; missing_return is
\* raised at no other point of the walk.
C16_MissingReturn ==
    /\ [][BodyAnalyzed =>
            IF MissingReturn
            THEN result' = SemanticException("MISSING_RETURN",
                                            FunctionContext(Top.node.name))
            ELSE result' = result /\ stack' # <<>>]_vars
    /\ [][result.type = "RUNNING" /\ result'.type = "MISSING_RETURN" =>
            BodyAnalyzed /\ MissingReturn]_vars

\* a function whose only return stands in a loop has been rejected
C16_Witness ==
    /\ result.type = "MISSING_RETURN"
    /\ \E function \in FunctionDeclsIn(root) :
          /\ function.name = result.context.name
          /\ \E k \in 1..Len(function.bodyItems) :
                /\ function.bodyItems[k].kind = "WhileStmt"
                /\ AllPathsReturn(function.bodyItems[k].bodyItems)

-----------------------------------------------------------------------------
(* C17: fail-fast ordering                                                 *)

\* the top-level function declarations that repeat the name of an earlier one
Duplicates ==
    {k \in TopLevel("FunctionDecl") :
        \E j \in TopLevel("FunctionDecl") : j < k /\ root[j].name = root[k].name}
FirstDuplicate == CHOOSE k \in Duplicates : \A j \in Duplicates : k <= j

\* Where the walk stands, outermost record first: the index of the item in
\* the program or a block; for an if, the then block (1), behind it (2), the
\* else block (3), behind it (4); for a function or while, the body (1),
\* behind it (2).
PositionOf(stk) ==
    [k \in 1..Len(stk) |->
        IF stk[k].kind \in {"Program", "Block"} THEN stk[k].i
        ELSE (IF stk[k].kind = "If" /\ stk[k].branch = "else" THEN 3 ELSE 1)
             + (IF k = Len(stk) THEN 1 ELSE 0)]

\* p comes before q in source order, depth first
Before(p, q) ==
    \E k \in 1..Len(q) :
        /\ \A j \in 1..(k - 1) : j <= Len(p) /\ p[j] = q[j]
        /\ k > Len(p) \/ (k <= Len(p) /\ p[k] < q[k])

\* C17: a program with a repeated top-level function name ends at once, with
\* redeclared_function for the first repeated name, whatever violations
\* stand in bodies or variable declarations, and any other program enters
\* the second pass; the second pass moves forward only, in source order and
\* depth first; once the analysis has ended with a diagnostic or with
\* acceptance nothing more is analyzed or inserted and the outcome stays.
C17_FailFast ==
    /\ [][result.type = "IDLE" =>
            IF Duplicates # {}
            THEN /\ result' = SemanticException("REDECLARED_FUNCTION",
                                   FunctionContext(root[FirstDuplicate].name))
                 /\ Len(currentScope') = 1
                 /\ \A name \in DOMAIN currentScope'[1] :
                        currentScope'[1][name].kind = "FUNCTION"
            ELSE result' = Running /\ PositionOf(stack') = <<1>>]_vars
    /\ [][IsRunning /\ result'.type = "RUNNING" =>
            Before(PositionOf(stack), PositionOf(stack'))]_vars
    /\ [][IsRunning => result'.type # "IDLE"]_vars
    /\ [](Ended => stack = <<>> /\ ~ENABLED <<Next>>_vars)

\* f's body reads an undeclared v, and the repeated g after it is reported
C17_Witness ==
    /\ Len(root) = 3
    /\ \A k \in 1..3 : root[k].kind = "FunctionDecl"
    /\ root[1].name = "f" /\ root[1].bodyItems = <<ReadV>>
    /\ root[2].name = "g" /\ root[3].name = "g"
    /\ result = SemanticException("REDECLARED_FUNCTION", FunctionContext("g"))

-----------------------------------------------------------------------------
(* C18: the order of the assignment checks                                 *)

AtAssignment == AtItem /\ Top.kind = "Block" /\ Item.kind = "AssignmentStmt"

\* what the chain binds the assigned name to, and the typing of the value
Target == lookup(currentScope, Item.variableName)
Value == analyzeExpr(currentScope, Item.value)

\* C18: at an assignment name := expr the one step of the walk reports the
\* first failing check in the order unreachable_code, undeclared_identifier
\* (the name is bound in no scope of the chain), function_used_as_variable,
\* assignment_to_constant, the diagnostic of typing expr,
\* assignment_type_mismatch, and goes on when none fails.  So an assignment
\* to a function name never gives assignment_to_constant, and a reachable
\* assignment of an expression that does not type to a constant gives
\* assignment_to_constant.
C18_AssignmentOrder ==
    /\ [][AtAssignment =>
            LET name == Item.variableName
            IN  IF isUnreachable
                THEN result' = SemanticException("UNREACHABLE_CODE", NoContext)
                ELSE IF ~BoundInChain(name)
                THEN result' = SemanticException("UNDECLARED_IDENTIFIER",
                                                 IdentifierContext(name))
                ELSE IF Target.kind = "FUNCTION"
                THEN result' = SemanticException("FUNCTION_USED_AS_VARIABLE",
                                                 FunctionContext(name))
                ELSE IF Target.isConstant
                THEN result' = SemanticException("VAR_ASSIGN_TO_CONSTANT",
                                                 IdentifierContext(name))
                ELSE IF Threw(Value) THEN result' = Value.thrown
                ELSE IF ~CompatibilityTable(Target.type, Value.type)
                THEN result' = SemanticException("VAR_ASSIGN_TYPE_MISMATCH",
                                   IdentifierTypeMismatch(name, Target.type, Value.type))
                ELSE result' = result /\ stack' # <<>>]_vars
    /\ [][AtAssignment /\ Target.kind = "FUNCTION" =>
            result'.type # "VAR_ASSIGN_TO_CONSTANT"]_vars
    /\ [][AtAssignment /\ ~isUnreachable /\ Target.kind = "VARIABLE" /\ Target.isConstant
             /\ Threw(Value) =>
            result'.type = "VAR_ASSIGN_TO_CONSTANT"]_vars

\* c := z with the constant c and no z has been reported as an assignment to
\* a constant
C18_Witness ==
    /\ root \in AssignmentPrograms
    /\ root[4].bodyItems = <<AssignmentStmtNode("c", IdentifierNode("z"))>>
    /\ result = SemanticException("VAR_ASSIGN_TO_CONSTANT", IdentifierContext("c"))

-----------------------------------------------------------------------------
(* C19: the order of the steps of a declaration                            *)

AtAnyVarDecl == AtItem /\ Item.kind = "VarDecl"
HasInitializer == Item.initializer.kind # "Null"

\* the typing of the initializer in the scope chain as it is before the step
Initializer == analyzeExpr(currentScope, Item.initializer)

\* C19: at a declaration of a variable or constant the one step of the walk
\* reports the first failing step in the order unreachable_code, the
\* redeclaration in the current scope (redeclared_function for a Function
\* symbol, else redeclared_identifier), the diagnostic of typing the
\* initializer in the chain that does not yet bind the name in the current
\* scope, variable_declaration_type_mismatch with name, declared and actual
\* type; only when none fails it inserts the symbol.  A reachable
\* var x: T := x with x bound in no scope of the chain gives
\* undeclared_identifier for x, and a step that raises a diagnostic leaves
\* every scope as it was.
C19_VarDeclOrder ==
    /\ [][AtAnyVarDecl =>
            LET name == Item.name
                declared == getDataType(Item)
            IN  IF isUnreachable
                THEN result' = SemanticException("UNREACHABLE_CODE", NoContext)
                ELSE IF name \in DOMAIN Current
                THEN result' = IF Current[name].kind = "FUNCTION"
                               THEN SemanticException("REDECLARED_FUNCTION",
                                                      FunctionContext(name))
                               ELSE SemanticException("REDECLARED_IDENTIFIER",
                                                      IdentifierContext(name))
                ELSE IF HasInitializer /\ Threw(Initializer)
                THEN result' = Initializer.thrown
                ELSE IF HasInitializer /\ ~CompatibilityTable(declared, Initializer.type)
                THEN result' = SemanticException("VAR_DECL_TYPE_MISMATCH",
                                   IdentifierTypeMismatch(name, declared, Initializer.type))
                ELSE /\ result' = result
                     /\ currentScope' =
                            Inserted(currentScope, name,
                                     VariableSymbol(name, declared, Item.isConstant))]_vars
    /\ [][AtAnyVarDecl /\ ~isUnreachable /\ Item.initializer = IdentifierNode(Item.name)
             /\ ~BoundInChain(Item.name) =>
            result' = SemanticException("UNDECLARED_IDENTIFIER",
                                        IdentifierContext(Item.name))]_vars
    /\ [][AtAnyVarDecl /\ result' # result => currentScope' = currentScope]_vars

\* var x: int := x in f, with no x anywhere, has been rejected and f's scope
\* binds only the parameter
C19_Witness ==
    /\ root \in VarDeclPrograms /\ Len(root) = 2 /\ root[2].kind = "FunctionDecl"
    /\ root[2].bodyItems = <<VarDeclNode(FALSE, "x", "int", IdentifierNode("x"))>>
    /\ result = SemanticException("UNDECLARED_IDENTIFIER", IdentifierContext("x"))
    /\ Len(currentScope) = 2 /\ DOMAIN currentScope[2] = {"p"}

-----------------------------------------------------------------------------
(* C20: the order of the checks of a call                                  *)

\* the walk stands before var r: T := callee(arguments), r not yet declared
AtCall ==
    /\ AtAnyVarDecl /\ ~isUnreachable /\ Item.name \notin DOMAIN Current
    /\ Item.initializer.kind = "FunctionCall"

Callee == lookup(currentScope, Item.initializer.functionName)
Arguments == Item.initializer.arguments
Argument(i) == analyzeExpr(currentScope, Arguments[i])

\* the arguments that do not type or that their parameter does not accept
FailingArguments ==
    {i \in 1..Len(Arguments) :
        \/ Threw(Argument(i))
        \/ ~CompatibilityTable(Callee.paramTypes[i], Argument(i).type)}
FirstFailing == CHOOSE i \in FailingArguments : \A j \in FailingArguments : i <= j

CallDiagnostics ==
    {"UNDECLARED_FUNCTION", "NOT_A_FUNCTION", "WRONG_NUMBER_OF_ARGUMENTS",
     "INVALID_SIGNATURE"}

\* C20: typing a call reports the first failing check in the order: the
\* name is bound nowhere in the chain (undeclared_function), it is bound to a
\* variable or constant (not_a_function), the number of arguments differs
\* from the number of parameters (wrong_number_of_arguments with both
\* numbers), and then, argument by argument from the left, the diagnostic of
\* typing the argument or invalid_signature when its parameter does not
\* accept it.  So a wrong number of arguments is reported whatever the
\* arguments are, and nothing of an argument behind the first failing one is
\* reported; a call that passes has the function's return type.
C20_CallOrder ==
    [][AtCall =>
        LET name == Item.initializer.functionName
        IN  IF ~BoundInChain(name)
            THEN result' = SemanticException("UNDECLARED_FUNCTION", FunctionContext(name))
            ELSE IF Callee.kind # "FUNCTION"
            THEN result' = SemanticException("NOT_A_FUNCTION", IdentifierContext(name))
            ELSE IF Len(Arguments) # Len(Callee.paramTypes)
            THEN result' = SemanticException("WRONG_NUMBER_OF_ARGUMENTS",
                               ArgCount(name, Len(Callee.paramTypes), Len(Arguments)))
            ELSE IF FailingArguments = {}
            THEN /\ result'.type \notin CallDiagnostics
                 /\ lastCheck'.made /\ lastCheck'.source = Callee.returnType
            ELSE IF Threw(Argument(FirstFailing))
            THEN result' = Argument(FirstFailing).thrown
            ELSE /\ result'.type = "INVALID_SIGNATURE"
                 /\ result'.context.name = name
                 /\ result'.context.expected = Callee.paramTypes]_vars

\* g(z) with no z, for a g of two parameters, has been reported as a wrong
\* number of arguments
C20_Witness ==
    /\ root \in CallPrograms
    /\ Len(root[1].parameters) = 2
    /\ root[2].initializer.arguments = <<IdentifierNode("z")>>
    /\ result = SemanticException("WRONG_NUMBER_OF_ARGUMENTS", ArgCount("g", 2, 1))

-----------------------------------------------------------------------------
(* C21: parameters and body share one scope                                *)

\* the walk stands before an item that is directly in the body of a function
InFunctionBody ==
    /\ AtItem /\ Top.kind = "Block" /\ Len(stack) >= 2
    /\ stack[Len(stack) - 1].kind = "Function"
OwnFunction == stack[Len(stack) - 1].node

\* the scope analyzeFunctionDecl makes for parameters of distinct names
ParameterScope(funcDecl) ==
    [name \in ParameterNamesOf(funcDecl) |->
        LET parameter == funcDecl.parameters[
                             CHOOSE j \in 1..Len(funcDecl.parameters) :
                                 funcDecl.parameters[j].name = name]
        IN  VariableSymbol(name, parameter.type, FALSE)]

\* C21: a function declaration whose parameters have distinct names starts
\* its body in one new scope that binds exactly the parameters, each as a
\* non-constant Variable of its type, and a repeated parameter name gives
\* redeclared_identifier for it.  That scope is the current scope for every
\* item directly in the body and it keeps binding every parameter as
\* inserted: there an assignment to a parameter is never an assignment to a
\* constant, and a reachable declaration of a variable or constant with the
\* name of a parameter gives redeclared_identifier.
C21_ParametersShareBodyScope ==
    /\ [][AtFunctionDecl =>
            IF RepeatedParameters(Item) # {}
            THEN result' = SemanticException("REDECLARED_IDENTIFIER",
                               IdentifierContext(
                                   Item.parameters[FirstOf(RepeatedParameters(Item))].name))
            ELSE /\ result' = result
                 /\ currentScope' = Append(currentScope, ParameterScope(Item))]_vars
    /\ [](InFunctionBody =>
            \A name \in ParameterNamesOf(OwnFunction) :
                /\ name \in DOMAIN Current
                /\ Current[name] = ParameterScope(OwnFunction)[name])
    /\ [][InFunctionBody /\ Item.kind = "AssignmentStmt"
             /\ Item.variableName \in ParameterNamesOf(OwnFunction) =>
            /\ result'.type \notin {"VAR_ASSIGN_TO_CONSTANT", "FUNCTION_USED_AS_VARIABLE"}
            /\ result' # SemanticException("UNDECLARED_IDENTIFIER",
                                           IdentifierContext(Item.variableName))]_vars
    /\ [][InFunctionBody /\ Item.kind = "VarDecl" /\ ~isUnreachable
             /\ Item.name \in ParameterNamesOf(OwnFunction) =>
            result' = SemanticException("REDECLARED_IDENTIFIER",
                                        IdentifierContext(Item.name))]_vars

\* var x in the body of f(b, x) has been rejected
C21_Witness ==
    /\ root \in ScopePrograms /\ Len(root) = 1
    /\ "x" \in ParameterNamesOf(root[1])
    /\ root[1].bodyItems # <<>> /\ root[1].bodyItems[1].kind = "VarDecl"
    /\ result = SemanticException("REDECLARED_IDENTIFIER", IdentifierContext("x"))
    /\ Len(currentScope) = 2

-----------------------------------------------------------------------------
(* C22: lexical capture by nested functions                                *)

\* the innermost function declaration being analyzed is a nested one and the
\* walk stands before an item of its body that reads an identifier
Innermost == CHOOSE k \in FunctionFrames : \A j \in FunctionFrames : j <= k
InNestedBody ==
    /\ AtItem /\ Top.kind = "Block" /\ Cardinality(FunctionFrames) >= 2
    /\ ItemExpr.kind = "Identifier"

\* the depth of the scope the nested function is declared in, and the block
\* it is declared in
EnclosingDepth == stack[Innermost].parentScope
EnclosingBlock == stack[Innermost - 1]

\* parameters of enclosing functions and variables declared, before the
\* nested function, in the enclosing scopes
EnclosingVariables ==
    UNION {IF stack[k].kind = "Program" THEN DeclaredBy(root, stack[k].i - 1)
           ELSE IF stack[k].kind = "Function" THEN ParameterNamesOf(stack[k].node)
           ELSE IF stack[k].kind = "Block" THEN DeclaredBy(stack[k].block, stack[k].i - 1)
           ELSE {} : k \in 1..(Innermost - 1)}

\* variables the enclosing block declares after the nested function
DeclaredAfter ==
    {EnclosingBlock.block[j].name :
        j \in {m \in (EnclosingBlock.i + 1)..Len(EnclosingBlock.block) :
                  EnclosingBlock.block[m].kind = "VarDecl"}}

\* the symbol of the innermost enclosing scope that binds the name
EnclosingSymbol(name) ==
    LET depths == {d \in 1..EnclosingDepth : name \in DOMAIN currentScope[d]}
    IN  currentScope[CHOOSE d \in depths : \A e \in depths : e <= d][name]

\* a scope made for the nested function or inside it binds the name
OwnBinds(name) ==
    \E d \in (EnclosingDepth + 1)..Len(currentScope) : name \in DOMAIN currentScope[d]

Read == analyzeExpr(currentScope, ItemExpr)
Undeclared(name) == SemanticException("UNDECLARED_IDENTIFIER", IdentifierContext(name))

\* C22 as stated: in the body of a nested function an identifier that names
\* a parameter of an enclosing function or an earlier variable of an
\* enclosing scope resolves to that symbol, and one that names a variable the
\* enclosing scope declares after the nested function does not resolve.
C22_CaptureUnconditional ==
    InNestedBody =>
        /\ ItemExpr.name \in EnclosingVariables =>
               lookup(currentScope, ItemExpr.name) = EnclosingSymbol(ItemExpr.name)
        /\ ItemExpr.name \in DeclaredAfter =>
               Read.thrown = Undeclared(ItemExpr.name)

\* C22: in the body of a nested function an identifier that names a
\* parameter of an enclosing function, or a variable an enclosing scope
\* declared before the nested function, never yields undeclared_identifier;
\* it resolves to that symbol, of the innermost such scope, unless the
\* nested function binds the name itself (a parameter or a variable of its
\* own), and then to the nested function's symbol.  A variable the enclosing
\* block declares only after the nested function is not bound in the
\* enclosing scope while the body is analyzed: the identifier yields
\* undeclared_identifier unless the nested function or an enclosing scope
\* binds the name.
C22_Capture ==
    InNestedBody =>
        LET name == ItemExpr.name
        IN  /\ name \in EnclosingVariables =>
                   /\ \E d \in 1..EnclosingDepth : name \in DOMAIN currentScope[d]
                   /\ ~Threw(Read)
                   /\ lookup(currentScope, name).kind = "VARIABLE"
                   /\ ~OwnBinds(name) =>
                          /\ lookup(currentScope, name) = EnclosingSymbol(name)
                          /\ Read = Typed(EnclosingSymbol(name).type)
                   /\ OwnBinds(name) =>
                          \E d \in (EnclosingDepth + 1)..Len(currentScope) :
                              /\ name \in DOMAIN currentScope[d]
                              /\ lookup(currentScope, name) = currentScope[d][name]
            /\ name \in DeclaredAfter \ EnclosingVariables =>
                   /\ name \notin DOMAIN currentScope[EnclosingDepth]
                   /\ ~OwnBinds(name)
                        /\ (\A d \in 1..EnclosingDepth : name \notin DOMAIN currentScope[d]) =>
                          Read.thrown = Undeclared(name)

\* h reads the parameter a of f from inside an if block of f
C22_Witness ==
    /\ InNestedBody /\ ItemExpr.name = "a" /\ ~OwnBinds("a")
    /\ Len(currentScope) = 4
    /\ Read = Typed("INT")

-----------------------------------------------------------------------------
(* C23: a function declaration leaves the context as it found it           *)

\* the block loop or the program loop stands right behind a function
\* declaration analyzed without a diagnostic
BehindFunctionDecl == BehindItem /\ Previous.kind = "FunctionDecl"

\* C23: analyzeFunctionDecl saves the function name, the return type, the
\* unreachable flag and the current scope it finds at entry; while its body
\* is analyzed neither the saved values nor any scope below the current one
\* change; and when it returns without a diagnostic the four are what was
\* saved.  So behind a nested declaration the function context is that of
\* the enclosing function, whose later return is checked against its own
\* return type, and a return inside a nested function that is the first
\* item of a function body leaves the items behind it reachable.
C23_ContextNeutral ==
    /\ [][AtFunctionDecl /\ result' = result =>
            LET frame == stack'[Len(stack) + 1]
            IN  /\ frame.kind = "Function"
                /\ frame.previousFunction = currentFunction
                /\ frame.previousReturnType = currentFunctionReturnType
                /\ frame.previousUnreachable = isUnreachable
                /\ frame.parentScope = Len(currentScope)
                /\ SubSeq(currentScope', 1, Len(currentScope)) = currentScope]_vars
    /\ [][\A k \in 1..Len(stack') :
            k < Len(stack) /\ stack[k].kind = "Function" => stack'[k] = stack[k]]_vars
    /\ [][\A d \in 1..Len(currentScope') :
            d < Len(currentScope) => currentScope'[d] = currentScope[d]]_vars
    /\ [][BodyAnalyzed /\ result' = result =>
            /\ Len(currentScope) = Top.parentScope + 1
            /\ currentScope' = SubSeq(currentScope, 1, Top.parentScope)
            /\ currentFunction' = Top.previousFunction
            /\ currentFunctionReturnType' = Top.previousReturnType
            /\ isUnreachable' = Top.previousUnreachable]_vars
    /\ [](BehindFunctionDecl =>
            /\ currentFunction = EnclosingFunction.name
            /\ currentFunctionReturnType = EnclosingFunction.returnType
            /\ Top.i = 2 /\ stack[Len(stack) - 1].kind = "Function" => ~isUnreachable)

\* behind a nested function that returns, of another return type, the
\* enclosing body goes on
C23_Witness ==
    /\ BehindFunctionDecl /\ MoreItems /\ ~isUnreachable
    /\ checkPathsReturn(Previous.bodyItems)
    /\ Previous.returnType # currentFunctionReturnType
    /\ Item.kind = "ReturnStmt"

-----------------------------------------------------------------------------
(* C24: the unreachable flag and checkPathsReturn agree                    *)

\* C24: when the body of a function has been analyzed without a diagnostic
\* the unreachable flag is true exactly when checkPathsReturn(body) is true;
\* so the step that follows raises missing_return exactly when the return
\* type is not Unit and the flag is false.
C24_ReachabilityAgrees ==
    /\ [](BodyAnalyzed => (isUnreachable <=> checkPathsReturn(Top.node.bodyItems)))
    /\ [][BodyAnalyzed =>
            (result'.type = "MISSING_RETURN" <=>
                Top.node.returnType # "IOTA" /\ ~isUnreachable)]_vars

\* a body whose if returns in both branches, with a nested function behind
\* it, ends unreachable
C24_Witness ==
    /\ BodyAnalyzed /\ isUnreachable
    /\ Len(Top.node.bodyItems) = 2
    /\ Top.node.bodyItems[1].kind = "IfStmt"
    /\ Top.node.bodyItems[2].kind = "FunctionDecl"

-----------------------------------------------------------------------------
(* C25: nested functions are never bound                                   *)

TopLevelFunctionNames == {root[k].name : k \in TopLevel("FunctionDecl")}

\* the names of the nested functions around the item: the functions declared
\* in the blocks being analyzed and the nested functions being analyzed
NestedFunctionNames ==
    UNION {IF stack[k].kind = "Block"
           THEN {stack[k].block[j].name :
                    j \in {m \in 1..Len(stack[k].block) :
                              stack[k].block[m].kind = "FunctionDecl"}}
           ELSE IF stack[k].kind = "Function" /\ k > 2 THEN {stack[k].node.name}
           ELSE {} : k \in 1..Len(stack)}

\* the walk stands before an item that calls a nested function by its name
AtNestedCall ==
    /\ AtItem /\ Top.kind = "Block" /\ ~isUnreachable
    /\ ItemExpr.kind = "FunctionCall"
    /\ ItemExpr.functionName \in NestedFunctionNames

VariableVisible(name) ==
    \E d \in 1..Len(currentScope) :
        name \in DOMAIN currentScope[d] /\ currentScope[d][name].kind = "VARIABLE"

OnlyTopLevelFunctionsBound ==
    \A d \in 1..Len(currentScope) :
        \A name \in DOMAIN currentScope[d] :
            currentScope[d][name].kind = "FUNCTION" =>
                d = 1 /\ name \in TopLevelFunctionNames

\* C25 as stated: only top-level functions are bound as Function symbols,
\* and a call to a nested function yields undeclared_function unless a
\* top-level function has the same name.
C25_NestedCallUndeclared ==
    /\ OnlyTopLevelFunctionsBound
    /\ AtNestedCall /\ ItemExpr.functionName \notin TopLevelFunctionNames =>
          Read.thrown = SemanticException("UNDECLARED_FUNCTION",
                                          FunctionContext(ItemExpr.functionName))

\* C25: only the global scope binds Function symbols, and only for
\* top-level functions; analyzing a nested function declaration adds one
\* scope with its parameters, binds its name nowhere and raises no
\* redeclaration diagnostic but for a repeated parameter, whatever the
\* enclosing block has declared.  A reachable call to a nested function by
\* its name, from the enclosing body or from its own body, yields
\* not_a_function when a variable of that name is visible, resolves to the
\* top-level function of that name when there is one, and yields
\* undeclared_function otherwise.
C25_NestedNeverBound ==
    /\ [](OnlyTopLevelFunctionsBound)
    /\ [][AtFunctionDecl /\ Top.kind = "Block" =>
            /\ result'.type # "REDECLARED_FUNCTION"
            /\ result'.type = "REDECLARED_IDENTIFIER" => RepeatedParameters(Item) # {}
            /\ result' = result =>
                   currentScope' = Append(currentScope, ParameterScope(Item))]_vars
    /\ [](AtNestedCall =>
            LET name == ItemExpr.functionName
            IN  IF VariableVisible(name)
                THEN Read.thrown = SemanticException("NOT_A_FUNCTION",
                                                     IdentifierContext(name))
                ELSE IF name \in TopLevelFunctionNames
                THEN /\ Read.thrown.type \notin {"UNDECLARED_FUNCTION", "NOT_A_FUNCTION"}
                     /\ lookup(currentScope, name) = currentScope[1][name]
                ELSE Read.thrown = SemanticException("UNDECLARED_FUNCTION",
                                                     FunctionContext(name)))

\* the nested h calls itself, with no other h anywhere
C25_Witness ==
    /\ AtNestedCall /\ ItemExpr.functionName = "h"
    /\ Cardinality(FunctionFrames) = 2 /\ stack[Innermost].node.name = "h"
    /\ "h" \notin TopLevelFunctionNames /\ ~VariableVisible("h")
    /\ Read.thrown.type = "UNDECLARED_FUNCTION"

-----------------------------------------------------------------------------
(* C26: a top-level name shared by a variable and a function               *)

TopLevelVariableNames == {root[k].name : k \in TopLevel("VarDecl")}

\* an earlier top-level declaration of a variable or constant has the name
DeclaredEarlier(name) ==
    \E j \in TopLevel("VarDecl") : j < Top.i /\ root[j].name = name

AtTopLevelVarDecl == AtDeclaration /\ Item.kind = "VarDecl"

\* C26: the first pass never raises redeclared_identifier and leaves only
\* Function symbols in the global scope.  In the second pass a top-level
\* declaration of a variable or constant with the name of a top-level
\* function, declared before or after it, gives redeclared_function for the
\* name, so no program in which the two share a name is accepted; one with
\* the name of an earlier top-level variable or constant, and of no
\* function, gives redeclared_identifier; and for a name of the global scope
\* redeclared_identifier is raised in no other case (for a top-level function
\* declaration it names a repeated parameter).
C26_SharedTopLevelName ==
    /\ [][result.type = "IDLE" =>
            /\ result'.type # "REDECLARED_IDENTIFIER"
            /\ \A name \in DOMAIN currentScope'[1] :
                   currentScope'[1][name].kind = "FUNCTION"]_vars
    /\ [][AtTopLevelVarDecl =>
            IF Item.name \in TopLevelFunctionNames
            THEN result' = SemanticException("REDECLARED_FUNCTION",
                                            FunctionContext(Item.name))
            ELSE IF DeclaredEarlier(Item.name)
            THEN result' = SemanticException("REDECLARED_IDENTIFIER",
                                            IdentifierContext(Item.name))
            ELSE result'.type \notin RedeclarationTypes]_vars
    /\ [][AtDeclaration /\ Item.kind = "FunctionDecl"
             /\ result'.type = "REDECLARED_IDENTIFIER" =>
            /\ RepeatedParameters(Item) # {}
            /\ result'.context.name \in ParameterNamesOf(Item)]_vars
    /\ [](result.type = "ACCEPTED" =>
            TopLevelVariableNames \cap TopLevelFunctionNames = {})

\* var v before func v has been rejected for the function's name
C26_Witness ==
    /\ Len(root) >= 2
    /\ root[1].kind = "VarDecl" /\ root[1].name = "v"
    /\ root[2].kind = "FunctionDecl" /\ root[2].name = "v"
    /\ result = SemanticException("REDECLARED_FUNCTION", FunctionContext("v"))
    /\ Len(currentScope) = 1 /\ currentScope[1]["v"].kind = "FUNCTION"

=============================================================================
